---- MODULE Spec2Model ----
(***************************************************************************)
(* Model of the building block register of ogc.bblocks (models.py):        *)
(* the catalog scan, the known-file maps, the dependency graph, the cycle  *)
(* check and the build order of BuildingBlockRegister.__init__.            *)
(*                                                                         *)
(* Identifiers are dot-separated strings in the code; here an identifier   *)
(* is the sequence of its dot-separated segments ('ogc.a' is <<"ogc","a">>)*)
(* and a path is the sequence of its parts.                                *)
(***************************************************************************)
EXTENDS Integers, Sequences, FiniteSets, TLC

\* Largest number of bblock.json files in the item tree.
MaxItems == 2

----------------------------------------------------------------------------
(* Identifiers and paths *)

NoId == <<>>

\* prefix: str = 'ogc.'
prefix == <<"ogc">>

\* p.startswith('_') for the path parts that occur in the modelled trees
StartsWithUnderscore(p) == p \in {"_x"}

\* rel_parts of the directories that can hold a bblock.json
ItemPaths == { <<"_x", "a">>, <<"a">>, <<"b">> }

\* Order of the strings "_x" < "a" < "a.x" < "b" < "x" (code points 0x5f < 0x61
\* < 0x62 < 0x78, a prefix before its extensions)
PartRank(p) == CASE p = "_x" -> 0 [] p = "a" -> 1 [] p = "a.x" -> 2 [] p = "b" -> 3
                 [] p = "x" -> 4

RECURSIVE PathLess(_, _)
PathLess(p, q) ==
    IF p = <<>> THEN q # <<>>
    ELSE IF q = <<>> THEN FALSE
    ELSE IF PartRank(Head(p)) # PartRank(Head(q))
         THEN PartRank(Head(p)) < PartRank(Head(q))
         ELSE PathLess(Tail(p), Tail(q))

\* sorted(registered_items_path.glob("**/bblock.json"))
RECURSIVE sorted(_)
sorted(S) ==
    IF S = {} THEN <<>>
    ELSE LET m == CHOOSE x \in S : \A y \in S \ {x} : PathLess(x, y)
         IN  <<m>> \o sorted(S \ {m})

get_bblock_identifier(rel_parts) ==
    [identifier |-> prefix \o SelectSeq(rel_parts, LAMBDA p : ~StartsWithUnderscore(p)),
     rel_path   |-> rel_parts]

\* Path(*(identifier.split('.')[1:]))
get_bblock_subdirs(identifier) == Tail(identifier)

\* The identifiers that metadata, references and imports can name
A == <<"ogc", "a">>
B == <<"ogc", "b">>
P == <<"imp", "p">>
U == <<"ogc", "zz">>

----------------------------------------------------------------------------
(* Files *)

NoFile == [base |-> "", dir |-> <<>>, name |-> ""]

SrcFile(rel_path, name) == [base |-> "items", dir |-> rel_path, name |-> name]
AnnFile(subdirs, name)  == [base |-> "annotated", dir |-> subdirs, name |-> name]
ImportedSchemaUrl(id, name) == [base |-> "https://imported", dir |-> id, name |-> name]

\* Files of the working tree that belong to no building block
ExtraFiles   == { SrcFile(<<"common">>, "defs.yaml") }
MissingFile  == SrcFile(<<"common">>, "missing.yaml")

----------------------------------------------------------------------------
(* Contents of bblock.json *)

NoDependsOn == [type |-> "absent", ids |-> {}]
NoExtends   == [type |-> "absent", id |-> NoId]

DependsOnForms ==
    { NoDependsOn,
      [type |-> "str",  ids |-> {A}],
      [type |-> "list", ids |-> {B}],
      [type |-> "list", ids |-> {U}] }

ExtendsForms ==
    { NoExtends,
      [type |-> "str",  id |-> A],
      [type |-> "dict", id |-> B] }

ValidDocs ==
    { d \in [valid : {TRUE}, dependsOn : DependsOnForms, extends : ExtendsForms] :
        d.dependsOn = NoDependsOn \/ d.extends = NoExtends }

InvalidDoc == [valid |-> FALSE, dependsOn |-> NoDependsOn, extends |-> NoExtends]
PlainDoc   == [valid |-> TRUE,  dependsOn |-> NoDependsOn, extends |-> NoExtends]

\* What the constructor finds in an item directory
ItemContents ==
    [doc : ValidDocs, examples_ok : {TRUE}, has_schema : BOOLEAN]
    \cup { [doc |-> InvalidDoc, examples_ok |-> TRUE,  has_schema |-> TRUE],
           [doc |-> PlainDoc,   examples_ok |-> FALSE, has_schema |-> TRUE] }

----------------------------------------------------------------------------
(* Imported block summaries (ImportedBuildingBlocks.bblocks) *)

ImportedSummary(id, deps) ==
    [itemIdentifier |-> id, dependsOn |-> deps,
     schema |-> { ImportedSchemaUrl(id, "schema.yaml"), ImportedSchemaUrl(id, "schema.json") },
     sourceSchema |-> ImportedSchemaUrl(id, "source.yaml")]

ImportedOptions ==
    { <<>> } \cup { << ImportedSummary(P, deps) >> : deps \in { {}, {A}, {U} } }

----------------------------------------------------------------------------
(* State *)

VARIABLES
    tree,                  \* the sorted metadata files (their rel_parts)
    fail_on_error,
    imported_bblocks,      \* sequence of imported summaries (dict order)
    pc,                    \* position in BuildingBlockRegister.__init__
    idx,                   \* index of the current loop
    bblocks,               \* self.bblocks: identifier -> BuildingBlock
    order,                 \* iteration order of self.bblocks
    bblock_paths,          \* self.bblock_paths: files_path -> identifier
    local_bblock_files,    \* self.local_bblock_files: file -> identifier
    imported_bblock_files, \* self.imported_bblock_files: URL -> identifier
    dep_graph_nodes,
    dep_graph_edges,       \* <<d, b>>: b depends on d
    error,                 \* the exception that aborted construction
    log,                   \* items reported on stderr and skipped
    item_docs,             \* item -> what the constructor read in its directory
    item_refs              \* identifier -> the references found in its documents

\* State of the components that work on a constructed register
VARIABLES
    disk,                  \* the files written below annotated_path
    found,                 \* the calls of RegisterSchemaResolver.find_schema
    docs,                  \* location -> contents of the schema documents
    loaded,                \* the locations schema_resolver.resolve_schema loaded
    root_schema,           \* the parent's resolved schema
    extension_schema_mappings,
    visited_refs,
    schema_nodes,          \* the SchemaNode objects, in creation order
    schema_branches,       \* the root nodes, in creation order
    stack,                 \* the walk_subschema calls in progress
    output_schema,
    metadata_urls,         \* ImportedBuildingBlocks: the argument of __init__
    pending_urls,          \* ImportedBuildingBlocks: the deque of register URLs
    imported_registers,    \* register URL -> identifiers it lists
    requests,              \* the URLs requests.get was called with, in order
    web                    \* register URL -> the document served for it

\* State of a postprocess run and of the http_interceptor module
VARIABLES
    id_prefix,             \* postprocess: the identifier prefix, as text
    annotate_step,         \* postprocess: not steps or 'annotate' in steps
    filter_id,             \* postprocess: None or the identifier to process
    child_bblocks,         \* postprocess: the blocks the first loop appended
    super_bblocks,         \* postprocess: the super blocks, in insertion order
    output_bblocks,        \* postprocess: identifiers of the metadata returned
    annotations,           \* the calls of annotate_schema, in order
    url_mappings,          \* http_interceptor._url_mappings (items in order)
    mocked,                \* http_interceptor._mocked
    urlopen,               \* what urllib.request.urlopen is bound to
    session_request,       \* what requests.Session.request is bound to
    calls,                 \* the enable / disable calls made so far
    served                 \* the requests sent and what answered them

\* The variables of the catalog that later components read
catalog_vars == << tree, fail_on_error, bblock_paths, local_bblock_files,
                   imported_bblock_files, dep_graph_nodes, dep_graph_edges,
                   log, item_docs, item_refs, order >>

resolver_vars == << disk, found >>

extender_vars == << docs, loaded, root_schema, extension_schema_mappings,
                    visited_refs, schema_nodes, schema_branches, stack, output_schema >>

import_vars == << metadata_urls, pending_urls, imported_registers, requests, web >>

postprocess_vars == << id_prefix, annotate_step, filter_id, child_bblocks, super_bblocks,
                       output_bblocks, annotations >>

interceptor_vars == << url_mappings, mocked, urlopen, session_request, calls, served >>

run_vars == << postprocess_vars, interceptor_vars >>

non_register_vars == << resolver_vars, extender_vars, import_vars, run_vars >>

vars == << tree, fail_on_error, imported_bblocks, pc, idx, bblocks, order,
           bblock_paths, local_bblock_files, imported_bblock_files,
           dep_graph_nodes, dep_graph_edges, error, log, item_docs, item_refs,
           non_register_vars >>

NoError == [kind |-> "none", id |-> NoId, file |-> NoFile, ref |-> NoId, cycles |-> {}]

ImportedIds == { imported_bblocks[i].itemIdentifier : i \in DOMAIN imported_bblocks }

\* The summary of an imported block
ImportedBlock(id) ==
    imported_bblocks[CHOOSE i \in DOMAIN imported_bblocks :
                        imported_bblocks[i].itemIdentifier = id]

----------------------------------------------------------------------------
(* BuildingBlock *)

\* BuildingBlock.__init__ raises: metadata or examples fail validation
ConstructorRaises(content) == ~content.doc.valid \/ ~content.examples_ok

\* The modelled item directories hold schema.yaml or no schema at all, and no
\* openapi.yaml; metadata names neither 'schema' nor 'openAPIDocument'.
BuildingBlock(identifier, rel_path, content) ==
    LET subdirs == IF Len(identifier) >= 2      \* '.' in self.identifier
                   THEN get_bblock_subdirs(identifier)
                   ELSE rel_path
    IN  [identifier       |-> identifier,
         metadata         |-> [itemIdentifier |-> identifier,
                               dependsOn      |-> content.doc.dependsOn,
                               extends        |-> content.doc.extends],
         subdirs          |-> subdirs,
         files_path       |-> rel_path,
         schema           |-> SrcFile(rel_path, "schema.yaml"),
         schema_exists    |-> content.has_schema,
         openapi          |-> SrcFile(rel_path, "openapi.yaml"),
         openapi_exists   |-> FALSE,
         annotated_path   |-> subdirs,
         annotated_schema |-> AnnFile(subdirs, "schema.yaml"),
         output_openapi   |-> AnnFile(subdirs, "openapi.yaml")]

get_files_with_references(bblock) ==
    (IF bblock.schema_exists
     THEN { bblock.schema,
            bblock.annotated_schema,
            AnnFile(bblock.subdirs, "schema.json"),
            AnnFile(bblock.subdirs, "schema-oas3.0.yaml"),
            AnnFile(bblock.subdirs, "schema-oas3.0.json") }
     ELSE {})
    \cup
    (IF bblock.openapi_exists
     THEN { bblock.openapi, bblock.output_openapi }
     ELSE {})

----------------------------------------------------------------------------
(* References found in a block's documents *)

BblocksRef(id) == [kind |-> "bblocks", id |-> id, key |-> NoFile, resolved |-> NoFile]
UrlRef(url)    == [kind |-> "url", id |-> NoId, key |-> url, resolved |-> NoFile]
\* a non-URL reference: key is the string as written, resolved the file that
\* source_fn.resolve_ref(ref).resolve() denotes
PathRef(key, resolved) == [kind |-> "path", id |-> NoId, key |-> key, resolved |-> resolved]
EmptyRef == [kind |-> "empty", id |-> NoId, key |-> NoFile, resolved |-> NoFile]

Literal(name) == [base |-> "literal", dir |-> <<>>, name |-> name]

Refs ==
    { BblocksRef(A), BblocksRef(B), BblocksRef(P), BblocksRef(U),
      UrlRef(ImportedSchemaUrl(P, "schema.yaml")),
      UrlRef([base |-> "https://example.org", dir |-> <<>>, name |-> "other.json"]),
      PathRef(AnnFile(<<"a">>, "schema.yaml"), MissingFile),
      PathRef(Literal("../b/schema.yaml"), SrcFile(<<"b">>, "schema.yaml")),
      PathRef(Literal("../common/defs.yaml"), SrcFile(<<"common">>, "defs.yaml")),
      PathRef(Literal("missing.yaml"), MissingFile),
      EmptyRef }

\* find_references_yaml over (bblock.schema, bblock.openapi): ref -> source file
ReferenceMaps(bblock) ==
    IF bblock.schema_exists
    THEN { <<>> } \cup { << [ref |-> r, source_fn |-> bblock.schema] >> : r \in Refs }
    ELSE { <<>> }

\* Path(rel_ref).is_file()
IsFile(f) ==
    \/ f \in ExtraFiles
    \/ \E p \in DOMAIN item_docs : item_docs[p].has_schema /\ f = SrcFile(p, "schema.yaml")

\* the loop body without the existence test for bblocks:// references
ClassifyRef_unchecked(bblock, r) ==
    IF r.kind = "empty" THEN [do |-> "continue", dep |-> NoId]
    ELSE IF r.kind = "bblocks" THEN
        IF r.id = bblock.identifier THEN [do |-> "continue", dep |-> NoId]
        ELSE [do |-> "add", dep |-> r.id]
    ELSE IF r.key \in DOMAIN imported_bblock_files
         THEN [do |-> "add", dep |-> imported_bblock_files[r.key]]
    ELSE IF r.key \in DOMAIN local_bblock_files
         THEN [do |-> "add", dep |-> local_bblock_files[r.key]]
    ELSE IF r.kind # "url" THEN
        IF ~IsFile(r.resolved) THEN [do |-> "dangling", dep |-> NoId]
        ELSE IF r.resolved \in DOMAIN local_bblock_files
             THEN [do |-> "add", dep |-> local_bblock_files[r.resolved]]
             ELSE [do |-> "continue", dep |-> NoId]
    ELSE [do |-> "continue", dep |-> NoId]

\* One iteration of the loop over references.items(): what it does with ref
ClassifyRef(bblock, r) ==
    IF r.kind = "empty" THEN [do |-> "continue", dep |-> NoId]
    ELSE IF r.kind = "bblocks" THEN
        IF r.id = bblock.identifier THEN [do |-> "continue", dep |-> NoId]
        ELSE IF r.id \in DOMAIN bblocks \/ r.id \in ImportedIds
             THEN [do |-> "add", dep |-> r.id]
             ELSE [do |-> "missing_import", dep |-> r.id]
    ELSE IF r.key \in DOMAIN imported_bblock_files
         THEN [do |-> "add", dep |-> imported_bblock_files[r.key]]
    ELSE IF r.key \in DOMAIN local_bblock_files
         THEN [do |-> "add", dep |-> local_bblock_files[r.key]]
    ELSE IF r.kind # "url" THEN
        IF ~IsFile(r.resolved) THEN [do |-> "dangling", dep |-> NoId]
        ELSE IF r.resolved \in DOMAIN local_bblock_files
             THEN [do |-> "add", dep |-> local_bblock_files[r.resolved]]
             ELSE [do |-> "continue", dep |-> NoId]
    ELSE [do |-> "continue", dep |-> NoId]

RECURSIVE WalkReferences(_, _, _)
WalkReferences(bblock, references, dependencies) ==
    IF references = <<>>
    THEN [error |-> NoError, deps |-> dependencies]
    ELSE LET r == Head(references).ref
             c == ClassifyRef(bblock, r)
         IN  IF c.do = "missing_import"
             THEN [error |-> [kind |-> "missing_import", id |-> bblock.identifier,
                              file |-> Head(references).source_fn, ref |-> c.dep,
                              cycles |-> {}],
                   deps |-> {}]
             ELSE IF c.do = "dangling"
             THEN [error |-> [kind |-> "dangling", id |-> bblock.identifier,
                              file |-> Head(references).source_fn, ref |-> NoId,
                              cycles |-> {}],
                   deps |-> {}]
             ELSE WalkReferences(bblock, Tail(references),
                                 IF c.do = "add" THEN dependencies \cup {c.dep}
                                 ELSE dependencies)

\* BuildingBlockRegister._resolve_bblock_deps
_resolve_bblock_deps(bblock, references) ==
    LET w == WalkReferences(bblock, references, {})
    IN  [error |-> w.error, deps |-> w.deps \ {bblock.identifier}]

----------------------------------------------------------------------------
(* The dependency graph (networkx.DiGraph) *)

Range(f) == { f[i] : i \in DOMAIN f }

\* dep_graph.add_edges_from([(d, identifier) for d in dependsOn])
DependencyEdges(identifier, dependsOn) == { <<d, identifier>> : d \in dependsOn }

\* Nodes that add_edges_from creates for the end points of the edges
EdgeNodes(edges) == { e[1] : e \in edges } \cup { e[2] : e \in edges }

ExtendPaths(ps, nodes, edges) ==
    { Append(p, n) : <<p, n>> \in
        { pn \in ps \X nodes :
            pn[2] \notin Range(pn[1]) /\ <<pn[1][Len(pn[1])], pn[2]>> \in edges } }

RECURSIVE SimplePaths(_, _, _, _)
SimplePaths(ps, nodes, edges, k) ==
    IF k = 0 \/ ps = {} THEN {}
    ELSE ps \cup SimplePaths(ExtendPaths(ps, nodes, edges), nodes, edges, k - 1)

\* Every node list [v1, ..., vk] of distinct nodes with edges
\* v1 -> v2 -> ... -> vk -> v1 (self-loops are the lists of length 1)
CycleLists(nodes, edges) ==
    { p \in SimplePaths({ <<n>> : n \in nodes }, nodes, edges, Cardinality(nodes)) :
        <<p[Len(p)], p[1]>> \in edges }

Rotate(p, k) == [i \in 1..Len(p) |-> p[((i - 1 + k) % Len(p)) + 1]]
SameCycle(p, q) == Len(p) = Len(q) /\ \E k \in 0..(Len(p) - 1) : q = Rotate(p, k)

\* simple_cycles as a search that skips self-loops
simple_cycles_without_self_loops(nodes, edges) ==
    LET all == { p \in CycleLists(nodes, edges) : Len(p) >= 2 }
    IN  { S \in SUBSET all :
            \A p \in all : Cardinality({ q \in S : SameCycle(p, q) }) = 1 }

\* nx.simple_cycles(dep_graph): each simple cycle once, as a list of its nodes
\* along the edges; the node the list starts with depends on the iteration
\* order of a set of str (hash randomisation), so every rotation is possible.
simple_cycles(nodes, edges) ==
    LET all == CycleLists(nodes, edges)
    IN  { S \in SUBSET all :
            \A p \in all : Cardinality({ q \in S : SameCycle(p, q) }) = 1 }

\* the rendering without reversed(): ' -> '.join(c) + ' -> ' + c[0]
RenderCycle_not_reversed(c) == c \o << c[1] >>

\* ' -> '.join(reversed(c)) + ' -> ' + c[-1]
RenderCycle(c) == [i \in 1..(Len(c) + 1) |-> IF i <= Len(c) THEN c[Len(c) + 1 - i]
                                             ELSE c[Len(c)]]

\* iteration over dep_graph.nodes in any order instead of a topological one
RECURSIVE nodes_in_any_order(_, _)
nodes_in_any_order(nodes, edges) ==
    IF nodes = {} THEN { <<>> }
    ELSE UNION { { <<x>> \o s : s \in nodes_in_any_order(nodes \ {x}, edges) } :
                 x \in nodes }

\* nx.topological_sort(dep_graph): a linear order of the nodes in which every
\* edge goes forward; ties are broken by insertion order of nodes and edges,
\* which follows list(found_deps) of a set of str, so any tie-break is possible.
RECURSIVE topological_sort(_, _)
topological_sort(nodes, edges) ==
    IF nodes = {} THEN { <<>> }
    ELSE UNION { { <<x>> \o s : s \in topological_sort(nodes \ {x}, edges) } :
                 x \in { n \in nodes : \A e \in edges : e[2] = n => e[1] \notin nodes } }

----------------------------------------------------------------------------
(* BuildingBlockRegister.__init__ *)

\* dicts are functions of their keys, lists are sequences
EmptyDict == <<>>

\* The extension composer has not been called
ExtenderIdle ==
    /\ docs = EmptyDict
    /\ loaded = {}
    /\ root_schema = EmptyDict
    /\ extension_schema_mappings = EmptyDict
    /\ visited_refs = {}
    /\ schema_nodes = <<>>
    /\ schema_branches = <<>>
    /\ stack = <<>>
    /\ output_schema = EmptyDict

\* No register document has been requested
ImportIdle ==
    /\ metadata_urls = <<>>
    /\ pending_urls = <<>>
    /\ imported_registers = EmptyDict
    /\ requests = <<>>
    /\ web = EmptyDict

\* postprocess has not been called
PostprocessIdle ==
    /\ id_prefix = << "ogc", "." >>
    /\ annotate_step = TRUE
    /\ filter_id = NoId
    /\ child_bblocks = <<>>
    /\ super_bblocks = <<>>
    /\ output_bblocks = <<>>
    /\ annotations = <<>>

\* http_interceptor is not part of the run
InterceptorIdle ==
    /\ url_mappings = <<>>
    /\ mocked = FALSE
    /\ urlopen = "original"
    /\ session_request = "original"
    /\ calls = <<>>
    /\ served = <<>>

\* Nothing has run on the register yet
NothingElseStarted ==
    /\ disk = {}
    /\ found = <<>>
    /\ ExtenderIdle
    /\ ImportIdle
    /\ PostprocessIdle
    /\ InterceptorIdle

Init ==
    /\ \E files \in SUBSET ItemPaths :
          /\ Cardinality(files) <= MaxItems
          /\ tree = sorted(files)
    /\ fail_on_error \in BOOLEAN
    /\ imported_bblocks \in ImportedOptions
    /\ pc = "scan"
    /\ idx = 1
    /\ bblocks = <<>>
    /\ order = <<>>
    /\ bblock_paths = <<>>
    /\ local_bblock_files = <<>>
    /\ imported_bblock_files = <<>>
    /\ dep_graph_nodes = {}
    /\ dep_graph_edges = {}
    /\ error = NoError
    /\ log = {}
    /\ item_docs = <<>>
    /\ item_refs = <<>>
    /\ NothingElseStarted

\* d[k] = v for every k in keys
Put(d, keys, v) == [k \in DOMAIN d \cup keys |-> IF k \in keys THEN v ELSE d[k]]

\* the handler without the fail_on_error test: every exception is swallowed
OnBuildException_always_skip(foe) == "skip"

\* except Exception as e: if fail_on_error: raise
OnBuildException(foe) == IF foe THEN "raise" ELSE "skip"

\* if bblock_id in self.bblocks: raise ValueError("Found duplicate bblock id")
IsDuplicate(bblock_id) == bblock_id \in DOMAIN bblocks

Raise(e) ==
    /\ pc' = "failed"
    /\ error' = e

ScanDuplicate ==
    /\ pc = "scan" /\ idx <= Len(tree)
    /\ LET bblock_id == get_bblock_identifier(tree[idx]).identifier
       IN  /\ IsDuplicate(bblock_id)
           /\ Raise([kind |-> "duplicate", id |-> bblock_id, file |-> NoFile,
                     ref |-> NoId, cycles |-> {}])
    /\ UNCHANGED << tree, fail_on_error, imported_bblocks, idx, bblocks, order,
                    bblock_paths, local_bblock_files, imported_bblock_files,
                    dep_graph_nodes, dep_graph_edges, log, item_docs, item_refs >>
    /\ UNCHANGED non_register_vars

ScanBuilt ==
    /\ pc = "scan" /\ idx <= Len(tree)
    /\ LET r == get_bblock_identifier(tree[idx])
       IN  /\ ~IsDuplicate(r.identifier)
           /\ \E content \in ItemContents :
                /\ ~ConstructorRaises(content)
                /\ LET bblock == BuildingBlock(r.identifier, r.rel_path, content)
                   IN  /\ bblocks' = Put(bblocks, {r.identifier}, bblock)
                       /\ order' = Append(order, r.identifier)
                       /\ bblock_paths' = Put(bblock_paths, {bblock.files_path}, r.identifier)
                /\ item_docs' = Put(item_docs, {tree[idx]}, content)
    /\ idx' = idx + 1
    /\ UNCHANGED << tree, fail_on_error, imported_bblocks, pc, local_bblock_files,
                    imported_bblock_files, dep_graph_nodes, dep_graph_edges,
                    error, log, item_refs >>
    /\ UNCHANGED non_register_vars

ScanSkipped ==
    /\ pc = "scan" /\ idx <= Len(tree)
    /\ ~IsDuplicate(get_bblock_identifier(tree[idx]).identifier)
    /\ \E content \in ItemContents :
         /\ ConstructorRaises(content)
         /\ item_docs' = Put(item_docs, {tree[idx]}, content)
    /\ OnBuildException(fail_on_error) = "skip"
    /\ log' = log \cup {tree[idx]}
    /\ idx' = idx + 1
    /\ UNCHANGED << tree, fail_on_error, imported_bblocks, pc, bblocks, order,
                    bblock_paths, local_bblock_files, imported_bblock_files,
                    dep_graph_nodes, dep_graph_edges, error, item_refs >>
    /\ UNCHANGED non_register_vars

ScanRaised ==
    /\ pc = "scan" /\ idx <= Len(tree)
    /\ ~IsDuplicate(get_bblock_identifier(tree[idx]).identifier)
    /\ \E content \in ItemContents :
         /\ ConstructorRaises(content)
         /\ item_docs' = Put(item_docs, {tree[idx]}, content)
    /\ OnBuildException(fail_on_error) = "raise"
    /\ Raise([kind |-> "build", id |-> get_bblock_identifier(tree[idx]).identifier,
              file |-> NoFile, ref |-> NoId, cycles |-> {}])
    /\ UNCHANGED << tree, fail_on_error, imported_bblocks, idx, bblocks, order,
                    bblock_paths, local_bblock_files, imported_bblock_files,
                    dep_graph_nodes, dep_graph_edges, log, item_refs >>
    /\ UNCHANGED non_register_vars

ScanDone ==
    /\ pc = "scan" /\ idx > Len(tree)
    /\ pc' = "files" /\ idx' = 1
    /\ UNCHANGED << tree, fail_on_error, imported_bblocks, bblocks, order,
                    bblock_paths, local_bblock_files, imported_bblock_files,
                    dep_graph_nodes, dep_graph_edges, error, log, item_docs, item_refs >>
    /\ UNCHANGED non_register_vars

\* for bblock_id, bblock in self.bblocks.items(): local_bblock_files[...] = bblock_id
\* (base_url is None, its default: only the relative paths are keys)
RegisterFiles ==
    /\ pc = "files" /\ idx <= Len(order)
    /\ local_bblock_files' =
          Put(local_bblock_files, get_files_with_references(bblocks[order[idx]]), order[idx])
    /\ idx' = idx + 1
    /\ UNCHANGED << tree, fail_on_error, imported_bblocks, pc, bblocks, order,
                    bblock_paths, imported_bblock_files, dep_graph_nodes,
                    dep_graph_edges, error, log, item_docs, item_refs >>
    /\ UNCHANGED non_register_vars

FilesDone ==
    /\ pc = "files" /\ idx > Len(order)
    /\ pc' = "imports" /\ idx' = 1
    /\ UNCHANGED << tree, fail_on_error, imported_bblocks, bblocks, order,
                    bblock_paths, local_bblock_files, imported_bblock_files,
                    dep_graph_nodes, dep_graph_edges, error, log, item_docs, item_refs >>
    /\ UNCHANGED non_register_vars

\* for identifier, imported_bblock in self.imported_bblocks.items()
\* (the summaries of the modelled registers carry no openAPIDocument)
AddImported ==
    /\ pc = "imports" /\ idx <= Len(imported_bblocks)
    /\ LET imported_bblock == imported_bblocks[idx]
           identifier == imported_bblock.itemIdentifier
           new_edges == DependencyEdges(identifier, imported_bblock.dependsOn)
       IN  /\ dep_graph_nodes' = dep_graph_nodes \cup {identifier} \cup EdgeNodes(new_edges)
           /\ dep_graph_edges' = dep_graph_edges \cup new_edges
           /\ imported_bblock_files' =
                 Put(imported_bblock_files,
                     imported_bblock.schema \cup {imported_bblock.sourceSchema},
                     identifier)
    /\ idx' = idx + 1
    /\ UNCHANGED << tree, fail_on_error, imported_bblocks, pc, bblocks, order,
                    bblock_paths, local_bblock_files, error, log, item_docs, item_refs >>
    /\ UNCHANGED non_register_vars

ImportsDone ==
    /\ pc = "imports" /\ idx > Len(imported_bblocks)
    /\ pc' = "deps" /\ idx' = 1
    /\ UNCHANGED << tree, fail_on_error, imported_bblocks, bblocks, order,
                    bblock_paths, local_bblock_files, imported_bblock_files,
                    dep_graph_nodes, dep_graph_edges, error, log, item_docs, item_refs >>
    /\ UNCHANGED non_register_vars

\* found_deps merged with the declared dependsOn (a str or a list)
MergeDependsOn(found_deps, deps) ==
    IF deps.type \in {"str", "list"} THEN found_deps \cup deps.ids ELSE found_deps

\* if found_deps: bblock.metadata['dependsOn'] = list(found_deps)
UpdatedDependsOn(found_deps, deps) ==
    IF found_deps # {} THEN [type |-> "list", ids |-> found_deps] ELSE deps

\* for bblock in self.bblocks.values(): one iteration without an exception
ResolveDeps ==
    /\ pc = "deps" /\ idx <= Len(order)
    /\ LET bblock == bblocks[order[idx]]
       IN  \E references \in ReferenceMaps(bblock) :
             LET res == _resolve_bblock_deps(bblock, references)
                 found_deps == MergeDependsOn(res.deps, bblock.metadata.dependsOn)
                 dependsOn == UpdatedDependsOn(found_deps, bblock.metadata.dependsOn)
                 new_edges == DependencyEdges(bblock.identifier, dependsOn.ids)
             IN  /\ res.error = NoError
                 /\ item_refs' = Put(item_refs, {bblock.identifier}, references)
                 /\ bblocks' = [bblocks EXCEPT ![bblock.identifier].metadata.dependsOn = dependsOn]
                 /\ dep_graph_nodes' = dep_graph_nodes \cup {bblock.identifier}
                                          \cup EdgeNodes(new_edges)
                 /\ dep_graph_edges' = dep_graph_edges \cup new_edges
    /\ idx' = idx + 1
    /\ UNCHANGED << tree, fail_on_error, imported_bblocks, pc, order, bblock_paths,
                    local_bblock_files, imported_bblock_files, error, log, item_docs >>
    /\ UNCHANGED non_register_vars

\* the same iteration when _resolve_bblock_deps raises ValueError
ResolveDepsRaised ==
    /\ pc = "deps" /\ idx <= Len(order)
    /\ LET bblock == bblocks[order[idx]]
       IN  \E references \in ReferenceMaps(bblock) :
             LET res == _resolve_bblock_deps(bblock, references)
             IN  /\ res.error # NoError
                 /\ item_refs' = Put(item_refs, {bblock.identifier}, references)
                 /\ Raise(res.error)
    /\ UNCHANGED << tree, fail_on_error, imported_bblocks, idx, bblocks, order,
                    bblock_paths, local_bblock_files, imported_bblock_files,
                    dep_graph_nodes, dep_graph_edges, log, item_docs >>
    /\ UNCHANGED non_register_vars

DepsDone ==
    /\ pc = "deps" /\ idx > Len(order)
    /\ pc' = "cycles" /\ idx' = 1
    /\ UNCHANGED << tree, fail_on_error, imported_bblocks, bblocks, order,
                    bblock_paths, local_bblock_files, imported_bblock_files,
                    dep_graph_nodes, dep_graph_edges, error, log, item_docs, item_refs >>
    /\ UNCHANGED non_register_vars

\* cycles = list(nx.simple_cycles(dep_graph)); if cycles: raise BuildingBlockError
CyclesFound ==
    /\ pc = "cycles"
    /\ \E cycles \in simple_cycles(dep_graph_nodes, dep_graph_edges) :
         /\ cycles # {}
         /\ Raise([kind |-> "circular", id |-> NoId, file |-> NoFile, ref |-> NoId,
                   cycles |-> { RenderCycle(c) : c \in cycles }])
    /\ UNCHANGED << tree, fail_on_error, imported_bblocks, idx, bblocks, order,
                    bblock_paths, local_bblock_files, imported_bblock_files,
                    dep_graph_nodes, dep_graph_edges, log, item_docs, item_refs >>
    /\ UNCHANGED non_register_vars

NoCycles ==
    /\ pc = "cycles"
    /\ \E cycles \in simple_cycles(dep_graph_nodes, dep_graph_edges) : cycles = {}
    /\ pc' = "sort"
    /\ UNCHANGED << tree, fail_on_error, imported_bblocks, idx, bblocks, order,
                    bblock_paths, local_bblock_files, imported_bblock_files,
                    dep_graph_nodes, dep_graph_edges, error, log, item_docs, item_refs >>
    /\ UNCHANGED non_register_vars

\* self.bblocks = {b: self.bblocks[b] for b in nx.topological_sort(dep_graph)
\*                 if b in self.bblocks}
TopologicalSort ==
    /\ pc = "sort"
    /\ \E s \in topological_sort(dep_graph_nodes, dep_graph_edges) :
         order' = SelectSeq(s, LAMBDA b : b \in DOMAIN bblocks)
    /\ pc' = "done"
    /\ UNCHANGED << tree, fail_on_error, imported_bblocks, idx, bblocks,
                    bblock_paths, local_bblock_files, imported_bblock_files,
                    dep_graph_nodes, dep_graph_edges, error, log, item_docs, item_refs >>
    /\ UNCHANGED non_register_vars

Next ==
    \/ ScanDuplicate \/ ScanBuilt \/ ScanSkipped \/ ScanRaised \/ ScanDone
    \/ RegisterFiles \/ FilesDone
    \/ AddImported \/ ImportsDone
    \/ ResolveDeps \/ ResolveDepsRaised \/ DepsDone
    \/ CyclesFound \/ NoCycles
    \/ TopologicalSort

Spec == Init /\ [][Next]_vars

----------------------------------------------------------------------------
(* A constructed register *)

\* The item directories a and b with plain metadata, built without an error
BuiltContents == { c \in ItemContents : c.doc = PlainDoc /\ ~ConstructorRaises(c) }

\* The state BuildingBlockRegister.__init__ leaves behind for the item tree
\* a/bblock.json, b/bblock.json whose documents hold no references
RegisterConstructed ==
    /\ tree = sorted({ <<"a">>, <<"b">> })
    /\ fail_on_error \in BOOLEAN
    /\ imported_bblocks \in { <<>>, << ImportedSummary(P, {}) >> }
    /\ \E ca, cb \in BuiltContents :
         /\ item_docs = (<<"a">> :> ca) @@ (<<"b">> :> cb)
         /\ bblocks = (A :> BuildingBlock(A, <<"a">>, ca)) @@ (B :> BuildingBlock(B, <<"b">>, cb))
    /\ order = << A, B >>
    /\ bblock_paths = (<<"a">> :> A) @@ (<<"b">> :> B)
    /\ local_bblock_files =
          Put(Put(<<>>, get_files_with_references(bblocks[A]), A),
              get_files_with_references(bblocks[B]), B)
    /\ imported_bblock_files =
          IF imported_bblocks = <<>> THEN <<>>
          ELSE Put(<<>>, imported_bblocks[1].schema \cup {imported_bblocks[1].sourceSchema}, P)
    /\ dep_graph_nodes = {A, B} \cup ImportedIds
    /\ dep_graph_edges = {}
    /\ error = NoError
    /\ log = {}
    /\ item_refs = (A :> <<>>) @@ (B :> <<>>)

----------------------------------------------------------------------------
(* RegisterSchemaResolver (schema.py) *)

\* Largest number of find_schema calls that are followed
MaxCalls == 2

\* An argument of find_schema: a pathlib.Path (relative or absolute) or a str;
\* file is the file or URL it denotes. A str has spelling "relpath" when it is
\* character for character what os.path.relpath gives for that file (a URL is
\* its own spelling), and "other" when it is another spelling ('./b/schema.yaml').
PathArg(form, file) == [type |-> "Path", spelling |-> form, file |-> file]
StrArg(spelling, file) == [type |-> "str", spelling |-> spelling, file |-> file]

\* os.path.relpath(s): the path relative to the working directory, as a str
os_path_relpath(s) == StrArg("relpath", s.file)

\* s in d, for a dict d keyed by os.path.relpath strings and URLs
IsKey(s, d) == s.type = "str" /\ s.spelling = "relpath" /\ s.file \in DOMAIN d

\* bblock['schema']['application/yaml'] of an imported summary
ApplicationYaml(id) == ImportedSchemaUrl(id, "schema.yaml")

\* bblock['schema']['application/yaml'] of a summary without it: KeyError
NoApplicationYaml == [type |-> "KeyError", spelling |-> "", file |-> NoFile]

\* RegisterSchemaResolver.find_schema
find_schema(s) ==
    LET s1 == IF s.type = "Path" THEN os_path_relpath(s) ELSE s
    IN  IF IsKey(s1, local_bblock_files)
        THEN LET bblock == bblocks[local_bblock_files[s1.file]]
             IN  IF bblock.annotated_schema \in disk
                 THEN PathArg("relative", bblock.annotated_schema)
                 ELSE s1
        ELSE IF IsKey(s1, imported_bblock_files)
        THEN LET bblock_id == imported_bblock_files[s1.file]
             IN  IF ApplicationYaml(bblock_id) \in ImportedBlock(bblock_id).schema
                 THEN StrArg("relpath", ApplicationYaml(bblock_id))
                 ELSE NoApplicationYaml
        ELSE s1

\* What find_schema is called with: the raw and the annotated documents of
\* the local blocks as Path and as str, the schema URLs of the imported blocks
\* and a file of no block
FindSchemaArgs ==
    UNION { { PathArg("relative", bblocks[b].schema),
              PathArg("absolute", bblocks[b].annotated_schema),
              StrArg("relpath", bblocks[b].schema),
              StrArg("relpath", bblocks[b].annotated_schema),
              StrArg("relpath", AnnFile(bblocks[b].subdirs, "schema.json")),
              StrArg("other", bblocks[b].schema) } :
            b \in { x \in DOMAIN bblocks : bblocks[x].schema_exists } }
    \cup { StrArg("relpath", ImportedSchemaUrl(id, "source.yaml")) : id \in ImportedIds }
    \cup { PathArg("relative", f) : f \in ExtraFiles }

\* The two files annotate_schema writes first: schema.yaml and schema.json
AnnotatedOutputs(bblock) ==
    { bblock.annotated_schema, AnnFile(bblock.subdirs, "schema.json") }

ResolverInit ==
    /\ RegisterConstructed
    /\ pc = "annotate"
    /\ idx = 1
    /\ disk = {}
    /\ found = <<>>
    /\ ExtenderIdle
    /\ ImportIdle
    /\ PostprocessIdle
    /\ InterceptorIdle

\* annotate_schema(bblock, register) for the next block of the build order
AnnotateSchema ==
    /\ pc = "annotate" /\ idx <= Len(order)
    /\ LET bblock == bblocks[order[idx]]
       IN  /\ bblock.schema_exists
           /\ disk' = disk \cup AnnotatedOutputs(bblock)
    /\ idx' = idx + 1
    /\ UNCHANGED << catalog_vars, run_vars, imported_bblocks, bblocks, pc, error, found,
                    extender_vars, import_vars >>

\* annotate_schema returns [] for a block without a schema
AnnotateNothing ==
    /\ pc = "annotate" /\ idx <= Len(order)
    /\ ~bblocks[order[idx]].schema_exists
    /\ idx' = idx + 1
    /\ UNCHANGED << catalog_vars, run_vars, imported_bblocks, bblocks, pc, error, resolver_vars,
                    extender_vars, import_vars >>

\* a call of find_schema(s) by a document loader
FindSchema ==
    /\ pc = "annotate"
    /\ Len(found) < MaxCalls
    /\ \E s \in FindSchemaArgs :
         found' = Append(found, [s |-> s, disk |-> disk, result |-> find_schema(s)])
    /\ UNCHANGED << catalog_vars, run_vars, imported_bblocks, bblocks, pc, idx, error, disk,
                    extender_vars, import_vars >>

ResolverNext ==
    \/ AnnotateSchema
    \/ AnnotateNothing
    \/ FindSchema

SpecResolver == ResolverInit /\ [][ResolverNext]_vars

----------------------------------------------------------------------------
(* ImportedBuildingBlocks (models.py) *)

\* Number of register URLs that exist
MaxRegisters == 3
\* Longest list of initial metadata_urls
MaxUrls == 2
\* Longest 'imports' list of a register document
MaxImports == 1

RegisterUrls == { << "https://register", i >> : i \in 1..MaxRegisters }

SeqsUpTo(S, n) == UNION { [1..k -> S] : k \in 0..n }

\* r.json(): a bare list of summaries, or an object with 'bblocks' and 'imports'
Q == << "imp", "q" >>
SummaryLists ==
    { <<>>,
      << ImportedSummary(P, {}) >>,
      << ImportedSummary(Q, {}), ImportedSummary(P, {A}) >> }

RegisterDocuments ==
    { [is_list |-> TRUE, bblocks |-> b, imports |-> <<>>] : b \in SummaryLists }
    \cup
    { [is_list |-> FALSE, bblocks |-> b, imports |-> i] :
        b \in SummaryLists,
        i \in SeqsUpTo(RegisterUrls, MaxImports) }

\* self.bblocks[bblock['itemIdentifier']] = bblock, for a dict kept as the
\* sequence of its values in insertion order
RECURSIVE StoreSummaries(_, _)
StoreSummaries(d, bblock_list) ==
    IF bblock_list = <<>> THEN d
    ELSE LET bblock == Head(bblock_list)
             at == { i \in DOMAIN d : d[i].itemIdentifier = bblock.itemIdentifier }
         IN  StoreSummaries(IF at = {} THEN Append(d, bblock)
                            ELSE [i \in DOMAIN d |-> IF i \in at THEN bblock ELSE d[i]],
                            Tail(bblock_list))

\* [bblock['itemIdentifier'] for bblock in bblock_list]
Identifiers(bblock_list) == [i \in DOMAIN bblock_list |-> bblock_list[i].itemIdentifier]

\* the imports of a register document are not followed
extend_nothing(pending, new_pending, registers) == pending

\* pending_urls.extend(u for u in new_pending if u not in self.imported_registers)
extend(pending, new_pending, registers) ==
    pending \o SelectSeq(new_pending, LAMBDA u : u \notin DOMAIN registers)

\* ImportedBuildingBlocks.__init__ up to the while loop, nothing else built yet
ImportInit ==
    /\ tree = <<>>
    /\ fail_on_error = FALSE
    /\ imported_bblocks = <<>>
    /\ pc = "import"
    /\ idx = 1
    /\ bblocks = <<>>
    /\ order = <<>>
    /\ bblock_paths = <<>>
    /\ local_bblock_files = <<>>
    /\ imported_bblock_files = <<>>
    /\ dep_graph_nodes = {}
    /\ dep_graph_edges = {}
    /\ error = NoError
    /\ log = {}
    /\ item_docs = <<>>
    /\ item_refs = <<>>
    /\ disk = {}
    /\ found = <<>>
    /\ ExtenderIdle
    /\ PostprocessIdle
    /\ InterceptorIdle
    /\ metadata_urls \in SeqsUpTo(RegisterUrls, MaxUrls)
    /\ pending_urls = metadata_urls
    /\ imported_registers = EmptyDict
    /\ requests = <<>>
    /\ web = EmptyDict

\* The document the server returns for metadata_url: the one it returned before,
\* or any document when the URL is requested for the first time
Served(metadata_url) ==
    IF metadata_url \in DOMAIN web THEN { web[metadata_url] } ELSE RegisterDocuments

\* one iteration of the while loop: popleft, load, extend
LoadRegister ==
    /\ pc = "import" /\ pending_urls # <<>>
    /\ LET metadata_url == Head(pending_urls)
       IN  \E imported \in Served(metadata_url) :
             LET bblock_list == imported.bblocks
                 dependencies == imported.imports
                 registers == Put(imported_registers, {metadata_url}, Identifiers(bblock_list))
             IN  /\ requests' = Append(requests, metadata_url)
                 /\ web' = Put(web, {metadata_url}, imported)
                 /\ imported_registers' = registers
                 /\ imported_bblocks' = StoreSummaries(imported_bblocks, bblock_list)
                 /\ pending_urls' = extend(Tail(pending_urls), dependencies, registers)
    /\ UNCHANGED << catalog_vars, run_vars, bblocks, pc, idx, error, resolver_vars,
                    extender_vars, metadata_urls >>

\* the same iteration when r.raise_for_status() raises
LoadRaised ==
    /\ pc = "import" /\ pending_urls # <<>>
    /\ Head(pending_urls) \notin DOMAIN web
    /\ requests' = Append(requests, Head(pending_urls))
    /\ pending_urls' = Tail(pending_urls)
    /\ Raise([kind |-> "HTTPError", id |-> NoId, file |-> NoFile, ref |-> NoId, cycles |-> {}])
    /\ UNCHANGED << catalog_vars, run_vars, imported_bblocks, bblocks, idx, resolver_vars,
                    extender_vars, metadata_urls, imported_registers, web >>

\* while pending_urls: ends
ImportDone ==
    /\ pc = "import" /\ pending_urls = <<>>
    /\ pc' = "imported"
    /\ UNCHANGED << catalog_vars, run_vars, imported_bblocks, bblocks, idx, error, resolver_vars,
                    extender_vars, import_vars >>

ImportNext ==
    \/ LoadRegister
    \/ LoadRaised
    \/ ImportDone

SpecImport == ImportInit /\ [][ImportNext]_vars

\* The loop is sequential code: an iteration that can run does run
SpecImportFair == SpecImport /\ WF_vars(ImportNext)

----------------------------------------------------------------------------
(* Schema documents and references (extension.py) *)

\* Most entries of a oneOf in the parent schemas
MaxEntries == 3

\* d.pop(k), d[k] = v, d.update(e), d.get(k, default)
pop(d, k) == [j \in DOMAIN d \ {k} |-> d[j]]
setitem(d, k, v) == [j \in DOMAIN d \cup {k} |-> IF j = k THEN v ELSE d[j]]
update(d, e) == [j \in DOMAIN d \cup DOMAIN e |-> IF j \in DOMAIN e THEN e[j] ELSE d[j]]
get(d, k, default) == IF k \in DOMAIN d THEN d[k] ELSE default

\* The blocks of the register the composer works on: ogc.a is the parent,
\* ogc.b the extending block, ogc.s and ogc.t a substitution source and target
S == <<"ogc", "s">>
T == <<"ogc", "t">>

\* Identifiers written with a fragment: 'ogc.a#/$defs/x'
WithFragment(id) == [i \in DOMAIN id |-> IF i = Len(id) THEN "#/$defs/x" ELSE id[i]]

\* a test that finds no fragment in any identifier
ContainsHash_never(identifier) == FALSE

\* '#' in identifier
ContainsHash(identifier) == \E i \in DOMAIN identifier : identifier[i] = "#/$defs/x"

\* is_url(location), for the locations of documents
UrlBases == { "https://imported", "https://example.org" }
IsUrlLocation(f) == f.base \in UrlBases

DirOf(f) == [base |-> f.base, dir |-> f.dir]
NoDir == [base |-> "", dir |-> <<>>]

\* A $ref value. A relative reference is the path from the directory `base`
\* to `file`; an absolute URL names `file` whatever it is resolved against;
\* '' is the empty string. The fragment is the sequence of its keys.
RelativeRef(base, file, fragment) ==
    [kind |-> "relative", base |-> base, file |-> file, fragment |-> fragment]
AbsoluteUrl(file, fragment) ==
    [kind |-> "url", base |-> NoDir, file |-> file, fragment |-> fragment]
EmptyString == [kind |-> "empty", base |-> NoDir, file |-> NoFile, fragment |-> <<>>]
\* the value of an expression that raised TypeError (Path + str)
TypeErrorValue == [kind |-> "TypeError", base |-> NoDir, file |-> NoFile, fragment |-> <<>>]

\* is_url(ref), for reference strings
is_url(ref) == ref.kind = "url"

\* The reference to file f as a document at location l writes it
RefFrom(l, f) ==
    IF IsUrlLocation(f) /\ ~IsUrlLocation(l) THEN AbsoluteUrl(f, <<>>)
    ELSE RelativeRef(DirOf(l), f, <<>>)

\* os.path.relpath(f.resolve(), d.resolve()) as a reference string
relpath(f, d) == RelativeRef(d, f, <<>>)

\* Locations of the documents
ParentLocation == AnnFile(<<"a">>, "schema.yaml")
ChildLocation == AnnFile(<<"b">>, "schema.yaml")
SourceLocation == AnnFile(<<"s">>, "schema.yaml")
TargetLocation == AnnFile(<<"t">>, "schema.yaml")
WrapperLocation == AnnFile(<<"a">>, "wrapper.yaml")
OtherLocation == AnnFile(<<"a">>, "other.yaml")
HolderLocation == AnnFile(<<"a">>, "holder.yaml")
PlainLocation == AnnFile(<<"a">>, "plain.yaml")
BaseLocation == AnnFile(<<"s">>, "base.yaml")
OtherUrl == [base |-> "https://example.org", dir |-> <<>>, name |-> "other.yaml"]
PlainUrl == [base |-> "https://example.org", dir |-> <<>>, name |-> "plain.yaml"]
AliasUrl == [base |-> "https://imported", dir |-> P, name |-> "alias.yaml"]
ImportedYaml == ImportedSchemaUrl(P, "schema.yaml")
ImportedJson == ImportedSchemaUrl(P, "schema.json")

\* Contents of documents
PlainObject == ("type" :> "object")
StringSchema == ("type" :> "string")
StructuredObject ==
    ("type" :> "object") @@ ("required" :> "p")
        @@ ("properties" :> ("p" :> StringSchema))

\* a schema whose only significant content is a single-entry allOf with a $ref
WrapperOf(ref) == ("description" :> "alias") @@ ("allOf" :> << ("$ref" :> ref) >>)

\* The entries a oneOf of the parent has besides the reference to the source
OtherEntries(l) ==
    << StringSchema,
       ("$ref" :> AbsoluteUrl(OtherUrl, <<>>)),
       ("$ref" :> RefFrom(l, OtherLocation)),
       StructuredObject >>

OneOfEntries(l, ref, n) ==
    << ("$ref" :> ref) >> \o
    [i \in 1..(n - 1) |-> OtherEntries(l)[((i - 1) % Len(OtherEntries(l))) + 1]]

ParentShapes ==
    { "single_allOf", "property", "wrapper", "oneOf", "nested_oneOf", "no_match",
      "two", "top_ref", "items", "allOf_siblings", "fragment", "wrapper_twice",
      "oneOf_refs", "choice_first", "choice_middle", "choice_last", "shared",
      "self_ref", "mutual" }

\* The position of the reference to the source in the oneOf of holder.yaml
ChoicePosition(shape) ==
    CASE shape = "choice_first" -> 1
      [] shape = "choice_middle" -> 2
      [] shape = "choice_last" -> MaxEntries

\* holder.yaml: a oneOf with the reference to the source among its entries, an
\* object with a property that refers to the source, or an object with a
\* property that refers back to the parent's schema
HolderContents(shape, ref) ==
    CASE shape \in { "choice_first", "choice_middle", "choice_last" } ->
            ("oneOf" :> [i \in 1..MaxEntries |->
                            IF i = ChoicePosition(shape) THEN ("$ref" :> ref)
                            ELSE StringSchema])
      [] shape = "shared" -> ("properties" :> ("p" :> ("$ref" :> ref)))
      [] shape = "mutual" ->
            ("properties" :> ("p" :> ("$ref" :> RefFrom(HolderLocation, ParentLocation))))
      [] OTHER -> PlainObject

\* The parent's annotated schema; ref is its reference to the source's schema
ParentContents(shape, ref) ==
    LET l == ParentLocation
        r == ("$ref" :> ref)
    IN  CASE shape = "single_allOf" -> ("allOf" :> << r >>)
          [] shape = "property" ->
                ("type" :> "object")
                    @@ ("properties" :> (("x" :> r) @@ ("y" :> StringSchema)))
          [] shape = "wrapper" ->
                ("properties" :> ("x" :> ("$ref" :> RefFrom(l, WrapperLocation))))
          [] shape = "wrapper_twice" ->
                ("properties" :> (("x" :> ("$ref" :> RefFrom(l, WrapperLocation)))
                                    @@ ("y" :> ("$ref" :> RefFrom(l, WrapperLocation)))))
          [] shape = "oneOf" -> ("oneOf" :> OneOfEntries(l, ref, MaxEntries))
          [] shape = "oneOf_refs" ->
                ("oneOf" :> << r, ("$ref" :> RefFrom(l, PlainLocation)),
                               ("$ref" :> AbsoluteUrl(PlainUrl, <<>>)) >>)
          [] shape = "nested_oneOf" ->
                ("properties" :>
                    (("x" :> ("oneOf" :> << r, ("$ref" :> RefFrom(l, OtherLocation)) >>))
                        @@ ("y" :> StringSchema)))
          [] shape = "no_match" ->
                ("type" :> "object")
                    @@ ("properties" :> ("y" :> ("$ref" :> RefFrom(l, OtherLocation))))
          [] shape = "two" -> ("properties" :> (("x" :> r) @@ ("y" :> r)))
          [] shape = "top_ref" -> r @@ ("description" :> "d")
          [] shape = "items" ->
                ("properties" :> ("x" :> (("type" :> "array") @@ ("items" :> r))))
          [] shape = "allOf_siblings" ->
                ("allOf" :> << ("$ref" :> RefFrom(l, OtherLocation)),
                               r @@ ("description" :> "d") >>)
          [] shape = "fragment" ->
                ("properties" :>
                    (("x" :> ("$ref" :> RelativeRef(DirOf(l), OtherLocation,
                                                    <<"properties", "p">>)))
                        @@ ("y" :> r)))
          [] shape \in { "choice_first", "choice_middle", "choice_last", "mutual" } ->
                ("properties" :> ("x" :> ("$ref" :> RefFrom(l, HolderLocation))))
          [] shape = "shared" ->
                ("properties" :> (("x" :> ("$ref" :> RefFrom(l, HolderLocation)))
                                    @@ ("y" :> ("$ref" :> RefFrom(l, HolderLocation)))))
          [] shape = "self_ref" ->
                ("properties" :> (("x" :> ("$ref" :> RefFrom(l, ParentLocation)))
                                    @@ ("y" :> StringSchema)))

SourceShapes == { "plain", "structured", "alias", "self_alias", "alias_loop" }

\* The schema of a substitution source at location l: an object, a wrapper of
\* a further schema, a wrapper of itself, or a wrapper of a wrapper of itself
SourceContents(shape, l) ==
    CASE shape = "plain" -> PlainObject
      [] shape = "structured" -> StructuredObject
      [] shape \in { "alias", "alias_loop" } ->
            WrapperOf(RefFrom(l, IF IsUrlLocation(l) THEN AliasUrl ELSE BaseLocation))
      [] shape = "self_alias" -> WrapperOf(RefFrom(l, l))

\* The schema a wrapper source wraps, at location l: it wraps the source at
\* location back when the chain is a loop
WrappedContents(shape, l, back) ==
    IF shape = "alias_loop" THEN WrapperOf(RefFrom(l, back)) ELSE PlainObject

\* The documents of one run: location -> contents
Documents(shape, source, source_shape) ==
    (ParentLocation :> ParentContents(shape, RefFrom(ParentLocation, source)))
    @@ (SourceLocation :> SourceContents(source_shape, SourceLocation))
    @@ (TargetLocation :> PlainObject)
    @@ (WrapperLocation :> WrapperOf(RefFrom(WrapperLocation, source)))
    @@ (OtherLocation :> StructuredObject)
    @@ (HolderLocation :> HolderContents(shape, RefFrom(HolderLocation, source)))
    @@ (PlainLocation :> PlainObject)
    @@ (BaseLocation :> WrappedContents(source_shape, BaseLocation, SourceLocation))
    @@ (OtherUrl :> StructuredObject)
    @@ (PlainUrl :> PlainObject)
    @@ (AliasUrl :> WrappedContents(source_shape, AliasUrl, ImportedYaml))
    @@ (ImportedYaml :> SourceContents(source_shape, ImportedYaml))
    @@ (ImportedJson :> SourceContents(source_shape, ImportedJson))

----------------------------------------------------------------------------
(* The register the composer works on *)

\* The extends declarations of the child block ogc.b:
\* extensionPoints = {baseBuildingBlock, extensions: {source: target}}
ExtensionPairs ==
    { <<>>,
      << [source |-> S, target |-> T] >>,
      << [source |-> P, target |-> T] >>,
      << [source |-> S, target |-> P] >>,
      << [source |-> WithFragment(S), target |-> T] >>,
      << [source |-> S, target |-> WithFragment(T)] >>,
      << [source |-> S, target |-> U] >>,
      << [source |-> U, target |-> T] >>,
      << [source |-> S, target |-> T], [source |-> P, target |-> T] >>,
      << [source |-> S, target |-> T], [source |-> U, target |-> T] >> }

ExtensionPoints ==
    [baseBuildingBlock : {A, P, U, WithFragment(A)}, extensions : ExtensionPairs]

\* The summary of the imported block imp.p with the schema URLs it advertises
ImportedSummaryWith(schema) ==
    [itemIdentifier |-> P, dependsOn |-> {}, itemClass |-> "datatype",
     schema |-> schema, sourceSchema |-> ImportedSchemaUrl(P, "source.yaml")]

ImportedForExtender ==
    { <<>>,
      << ImportedSummaryWith({ImportedYaml, ImportedJson}) >>,
      << ImportedSummaryWith({ImportedJson}) >> }

\* A block as BuildingBlock.__init__ builds it from a directory with a
\* schema.yaml and a bblock.json that has the given further entries
BlockWith(identifier, rel_path, entries) ==
    LET b == BuildingBlock(identifier, rel_path,
                           [doc |-> PlainDoc, examples_ok |-> TRUE, has_schema |-> TRUE])
    IN  [b EXCEPT !.metadata = entries @@ b.metadata]

ExtenderItems == << <<"a">>, <<"b">>, <<"s">>, <<"t">> >>

\* Which annotated schemas have been written when the composer is called
DiskStates ==
    { {ParentLocation, SourceLocation, TargetLocation},
      {ParentLocation, SourceLocation},
      {ParentLocation, TargetLocation},
      {SourceLocation, TargetLocation} }

RECURSIVE FilesOf(_, _)
FilesOf(ids, d) ==
    IF ids = <<>> THEN d
    ELSE FilesOf(Tail(ids), Put(d, get_files_with_references(bblocks[Head(ids)]), Head(ids)))

\* The state BuildingBlockRegister.__init__ leaves behind for the item tree
\* a, b, s, t, followed by the annotation of the blocks before ogc.b
ExtenderRegister ==
    /\ tree = ExtenderItems
    /\ fail_on_error = FALSE
    /\ imported_bblocks \in ImportedForExtender
    /\ item_docs = [p \in Range(ExtenderItems) |->
                        [doc |-> PlainDoc, examples_ok |-> TRUE, has_schema |-> TRUE]]
    /\ \E extensionPoints \in ExtensionPoints :
         bblocks = (A :> BlockWith(A, <<"a">>, [itemClass |-> "datatype"]))
                @@ (S :> BlockWith(S, <<"s">>, [itemClass |-> "schema"]))
                @@ (T :> BlockWith(T, <<"t">>, [itemClass |-> "schema"]))
                @@ (B :> BlockWith(B, <<"b">>, [itemClass |-> "schema",
                                                extensionPoints |-> extensionPoints]))
    /\ order = << A, S, T, B >>
    /\ bblock_paths = (<<"a">> :> A) @@ (<<"b">> :> B) @@ (<<"s">> :> S) @@ (<<"t">> :> T)
    /\ local_bblock_files = FilesOf(order, <<>>)
    /\ imported_bblock_files =
          IF imported_bblocks = <<>> THEN <<>>
          ELSE Put(<<>>, imported_bblocks[1].schema \cup {imported_bblocks[1].sourceSchema}, P)
    /\ dep_graph_nodes = {A, B, S, T} \cup ImportedIds
    /\ dep_graph_edges = {}
    /\ error = NoError
    /\ log = {}
    /\ item_refs = [b \in {A, B, S, T} |-> <<>>]

----------------------------------------------------------------------------
(* schema_resolver.resolve_schema as the composer uses it *)

\* Path.is_file() / the URL can be fetched
Exists(f) ==
    /\ f \in DOMAIN docs
    /\ f \in { bblocks[b].annotated_schema : b \in DOMAIN bblocks } => f \in disk

\* schema.fragment as a list of keys; SchemaResolver._get_branch
RECURSIVE get_branch(_, _)
get_branch(schema, path) ==
    IF path = <<>> THEN schema ELSE get_branch(schema[Head(path)], Tail(path))

\* ReferencedSchema; raises is the exception of the call, "none" without one
ReferencedSchema(location, fragment, contents) ==
    [raises |-> "none", location |-> location, fragment |-> fragment,
     subschema |-> get_branch(contents, fragment), full_contents |-> contents]

NoSchema(raises) ==
    [raises |-> raises, location |-> NoFile, fragment |-> <<>>,
     subschema |-> EmptyDict, full_contents |-> EmptyDict]

\* resolve_schema for a location: load_contents(find_schema(location))
resolve_location(location, fragment) ==
    LET s == find_schema(IF IsUrlLocation(location)
                         THEN StrArg("relpath", location)
                         ELSE PathArg("absolute", location))
    IN  IF s.type = "KeyError" THEN NoSchema("KeyError")
        ELSE IF ~Exists(s.file) THEN NoSchema("OSError")
        ELSE ReferencedSchema(location, fragment, docs[s.file])

\* The location a reference denotes when it is read in the document at `from`
resolve_ref(ref, from) ==
    IF ref.kind = "url" THEN ref.file
    ELSE IF ref.kind = "relative" /\ ref.base = DirOf(from) THEN ref.file
    ELSE IF ref.kind = "empty" THEN from
    ELSE MissingFile

\* schema_resolver.resolve_schema(ref, from_schema, return_none_on_loop=False)
\* (a reference that closes a loop resolves to the document it names)
resolve_schema(ref, from_schema) ==
    resolve_location(resolve_ref(ref, from_schema.location), ref.fragment)

\* What a node or a call keeps of its from_schema
Origin(schema) == [location |-> schema.location, fragment |-> schema.fragment]

----------------------------------------------------------------------------
(* Extender.process_extensions, for a register built without a base URL *)
(* (register.base_url is None): the schemas of local blocks are named by   *)
(* their paths.                                                            *)

JSON_SCHEMA_ALL_KEYWORDS ==
    { "$anchor", "$comment", "$defs", "$dynamicAnchor", "$dynamicRef", "$id", "$ref",
      "$schema", "$vocabulary", "additionalProperties", "allOf", "anyOf", "const",
      "contains", "contentEncoding", "contentMediaType", "contentSchema", "default",
      "dependentRequired", "dependentSchemas", "deprecated", "description", "else",
      "enum", "examples", "exclusiveMaximum", "exclusiveMinimum", "format", "if",
      "items", "maxContains", "maximum", "maxItems", "maxLength", "maxProperties",
      "minContains", "minimum", "minItems", "minLength", "minProperties", "multipleOf",
      "not", "oneOf", "pattern", "patternProperties", "prefixItems", "properties",
      "propertyNames", "readOnly", "required", "then", "title", "type",
      "unevaluatedItems", "unevaluatedProperties", "uniqueItems", "writeOnly" }

JSON_SCHEMA_METADATA_KEYWORDS ==
    { "$anchor", "$comment", "$defs", "$dynamicAnchor", "$dynamicRef", "$id", "$schema",
      "$vocabulary", "description", "else", "examples", "readOnly", "title", "writeOnly" }

JSON_SCHEMA_ALIAS_KEYWORDS == { "$ref", "oneOf", "allOf", "anyOf" }

JSON_SCHEMA_ALIAS_ABORT ==
    (JSON_SCHEMA_ALL_KEYWORDS \ JSON_SCHEMA_METADATA_KEYWORDS) \ JSON_SCHEMA_ALIAS_KEYWORDS

\* The extending block and its declaration
Child == B
ChildDir == [base |-> "annotated", dir |-> bblocks[Child].annotated_path]
parent_id == bblocks[Child].metadata.extensionPoints.baseBuildingBlock
extensions == bblocks[Child].metadata.extensionPoints.extensions

\* '#' in parent_id or any('#' in k or '#' in v for k, v in extensions.items())
DeclaresFragment ==
    \/ ContainsHash(parent_id)
    \/ \E i \in DOMAIN extensions :
          ContainsHash(extensions[i].source) \/ ContainsHash(extensions[i].target)

\* A key of extension_schema_mappings and of visited_refs: a location (a Path
\* for a file, a str for a URL) with the fragment appended to it
FullRef(location, fragment) == [location |-> location, fragment |-> fragment]

\* location + '#' + fragment, location + '': a Path cannot be added to a str
StrConcat(location, fragment) ==
    IF IsUrlLocation(location) THEN "str" ELSE "TypeError"

ExtensionTarget(source_id, target_id, target_ref) ==
    [extension_source_id |-> source_id, extension_target_id |-> target_id,
     extension_target_ref |-> target_ref]

\* lines 115-134 without the is_file() test: the local target is taken
\* whether or not its annotated schema is on disk
target_bblock_schema_unchecked(target_id) ==
    IF target_id \in DOMAIN bblocks
    THEN [raises |-> "none", ref |-> relpath(bblocks[target_id].annotated_schema, ChildDir)]
    ELSE IF target_id \notin ImportedIds THEN [raises |-> "KeyError", ref |-> EmptyString]
    ELSE IF ApplicationYaml(target_id) \in ImportedBlock(target_id).schema
         THEN [raises |-> "none", ref |-> AbsoluteUrl(ApplicationYaml(target_id), <<>>)]
         ELSE [raises |-> "ValueError", ref |-> EmptyString]

\* target_bblock_schema of lines 115-134
target_bblock_schema(target_id) ==
    IF target_id \in DOMAIN bblocks
    THEN IF bblocks[target_id].annotated_schema \in disk
         THEN [raises |-> "none", ref |-> relpath(bblocks[target_id].annotated_schema, ChildDir)]
         ELSE [raises |-> "ValueError", ref |-> EmptyString]
    ELSE IF target_id \notin ImportedIds THEN [raises |-> "KeyError", ref |-> EmptyString]
    ELSE IF ApplicationYaml(target_id) \in ImportedBlock(target_id).schema
         THEN [raises |-> "none", ref |-> AbsoluteUrl(ApplicationYaml(target_id), <<>>)]
         ELSE [raises |-> "ValueError", ref |-> EmptyString]

\* source_bblock_schema of lines 136-152: the location of the source's schema
source_bblock_schema(source_id) ==
    IF source_id \in DOMAIN bblocks
    THEN IF bblocks[source_id].annotated_schema \in disk
         THEN [raises |-> "none", location |-> bblocks[source_id].annotated_schema]
         ELSE [raises |-> "ValueError", location |-> NoFile]
    ELSE IF source_id \notin ImportedIds THEN [raises |-> "KeyError", location |-> NoFile]
    ELSE IF ApplicationYaml(source_id) \in ImportedBlock(source_id).schema
         THEN [raises |-> "none", location |-> ApplicationYaml(source_id)]
         ELSE [raises |-> "ValueError", location |-> NoFile]

\* The deepest recursion of extract_aliases the interpreter allows
\* (sys.getrecursionlimit(), scaled down)
RecursionLimit == 3

\* The call of Extender.extract_aliases at the given depth of its recursion:
\* the new mappings, the locations it resolved and the exception it raised
RECURSIVE extract_aliases_at(_, _, _)
extract_aliases_at(ref_schema, extension_target, depth) ==
    LET subschema == ref_schema.subschema
        nothing == [raises |-> "none", new_mappings |-> EmptyDict, loaded |-> {}]
        alias_subschema == DOMAIN subschema \cap { "$ref", "allOf", "anyOf", "oneOf" }
    IN  IF depth > RecursionLimit
        THEN [raises |-> "RecursionError", new_mappings |-> EmptyDict, loaded |-> {}]
        ELSE IF DOMAIN subschema \cap JSON_SCHEMA_ALIAS_ABORT # {} THEN nothing
        ELSE IF Cardinality(alias_subschema) # 1 THEN nothing
        ELSE LET k == CHOOSE x \in alias_subschema : TRUE
             IN  IF k # "$ref" /\ (Len(subschema[k]) # 1 \/ "$ref" \notin DOMAIN subschema[k][1])
                 THEN nothing
                 ELSE LET ref == IF k = "$ref" THEN subschema[k] ELSE subschema[k][1]["$ref"]
                          resolved_schema == resolve_schema(ref, ref_schema)
                      IN  IF ref.kind = "empty" THEN nothing
                          ELSE IF resolved_schema.raises # "none"
                          THEN [raises |-> resolved_schema.raises, new_mappings |-> EmptyDict,
                                loaded |-> {}]
                          ELSE IF StrConcat(resolved_schema.location, resolved_schema.fragment)
                                    = "TypeError"
                          THEN [raises |-> "TypeError", new_mappings |-> EmptyDict,
                                loaded |-> {resolved_schema.location}]
                          ELSE LET more == extract_aliases_at(resolved_schema,
                                                              extension_target, depth + 1)
                                   full_ref == FullRef(resolved_schema.location,
                                                       resolved_schema.fragment)
                               IN  [raises |-> more.raises,
                                    new_mappings |->
                                        update(full_ref :> extension_target, more.new_mappings),
                                    loaded |-> {resolved_schema.location} \cup more.loaded]

\* Extender.extract_aliases as process_extensions calls it (line 161)
extract_aliases(ref_schema, extension_target) ==
    extract_aliases_at(ref_schema, extension_target, 1)

ExtenderInit ==
    /\ ExtenderRegister
    /\ pc = "check"
    /\ idx = 1
    /\ disk \in DiskStates
    /\ found = <<>>
    /\ \E shape \in ParentShapes, source \in {SourceLocation, ImportedYaml},
          source_shape \in SourceShapes :
         docs = Documents(shape, source, source_shape)
    /\ loaded = {}
    /\ root_schema = EmptyDict
    /\ extension_schema_mappings = EmptyDict
    /\ visited_refs = {}
    /\ schema_nodes = <<>>
    /\ schema_branches = <<>>
    /\ stack = <<>>
    /\ output_schema = EmptyDict
    /\ ImportIdle
    /\ PostprocessIdle
    /\ InterceptorIdle

ExtenderError(kind, ref) ==
    [kind |-> kind, id |-> Child, file |-> NoFile, ref |-> ref, cycles |-> {}]

\* lines 77-80: the declaration names a fragment
FragmentRejected ==
    /\ pc = "check"
    /\ DeclaresFragment
    /\ Raise(ExtenderError("fragment", NoId))
    /\ UNCHANGED << catalog_vars, run_vars, imported_bblocks, bblocks, idx, resolver_vars,
                    extender_vars, import_vars >>

FragmentsChecked ==
    /\ pc = "check"
    /\ ~DeclaresFragment
    /\ pc' = "parent"
    /\ UNCHANGED << catalog_vars, run_vars, imported_bblocks, bblocks, idx, error, resolver_vars,
                    extender_vars, import_vars >>

\* lines 82-108: what looking up the parent does: whether bblock.metadata
\* gets an itemClass, and the schema that is resolved or the exception raised
ParentLookup ==
    IF parent_id \in DOMAIN bblocks
    THEN LET parent_bblock == bblocks[parent_id]
         IN  [sets_item_class |-> TRUE,
              itemClass |-> parent_bblock.metadata.itemClass,
              root_schema |->
                  IF parent_bblock.annotated_schema \in disk
                  THEN resolve_location(parent_bblock.annotated_schema, <<>>)
                  ELSE NoSchema("ValueError")]
    ELSE IF parent_id \notin ImportedIds
    THEN [sets_item_class |-> FALSE, itemClass |-> "", root_schema |-> NoSchema("ValueError")]
    ELSE LET imp_bblock == ImportedBlock(parent_id)
             bblock_schema ==
                 IF ApplicationYaml(parent_id) \in imp_bblock.schema
                 THEN ApplicationYaml(parent_id)
                 ELSE ImportedSchemaUrl(parent_id, "schema.json")
         IN  [sets_item_class |-> TRUE,
              itemClass |-> imp_bblock.itemClass,
              root_schema |->
                  IF bblock_schema \in imp_bblock.schema
                  THEN resolve_location(bblock_schema, <<>>)
                  ELSE NoSchema("ValueError")]

SetItemClass(lookup) ==
    IF lookup.sets_item_class
    THEN [bblocks EXCEPT ![Child].metadata.itemClass = lookup.itemClass]
    ELSE bblocks

ParentResolved ==
    /\ pc = "parent"
    /\ ParentLookup.root_schema.raises = "none"
    /\ bblocks' = SetItemClass(ParentLookup)
    /\ root_schema' = ParentLookup.root_schema
    /\ loaded' = loaded \cup {ParentLookup.root_schema.location}
    /\ pc' = "map"
    /\ idx' = 1
    /\ UNCHANGED << catalog_vars, run_vars, imported_bblocks, error, resolver_vars, docs,
                    extension_schema_mappings, visited_refs, schema_nodes,
                    schema_branches, stack, output_schema, import_vars >>

ParentRaised ==
    /\ pc = "parent"
    /\ ParentLookup.root_schema.raises # "none"
    /\ bblocks' = SetItemClass(ParentLookup)
    /\ Raise(ExtenderError(ParentLookup.root_schema.raises, parent_id))
    /\ UNCHANGED << catalog_vars, run_vars, imported_bblocks, idx, resolver_vars, extender_vars,
                    import_vars >>

\* One iteration of the loop of lines 111-162 over extensions.items()
ExtensionStep(extension_source_id, extension_target_id) ==
    LET target == target_bblock_schema(extension_target_id)
        source == source_bblock_schema(extension_source_id)
        nothing == [raises |-> "none", ref |-> NoId, mappings |-> extension_schema_mappings,
                    loaded |-> loaded]
    IN  IF target.raises # "none"
        THEN [nothing EXCEPT !.raises = target.raises, !.ref = extension_target_id]
        ELSE IF source.raises # "none"
        THEN [nothing EXCEPT !.raises = source.raises, !.ref = extension_source_id]
        ELSE LET extension_target ==
                     ExtensionTarget(extension_source_id, extension_target_id, target.ref)
                 mappings1 == setitem(extension_schema_mappings,
                                      FullRef(source.location, <<>>), extension_target)
                 source_bblock_resolved_schema == resolve_location(source.location, <<>>)
             IN  IF source_bblock_resolved_schema.raises # "none"
                 THEN [raises |-> source_bblock_resolved_schema.raises,
                       ref |-> extension_source_id, mappings |-> mappings1, loaded |-> loaded]
                 ELSE LET aliases == extract_aliases(source_bblock_resolved_schema,
                                                     extension_target)
                      IN  [raises |-> aliases.raises,
                           ref |-> extension_source_id,
                           mappings |-> IF aliases.raises = "none"
                                        THEN update(mappings1, aliases.new_mappings)
                                        ELSE mappings1,
                           loaded |-> loaded \cup {source.location} \cup aliases.loaded]

ExtensionMapped ==
    /\ pc = "map" /\ idx <= Len(extensions)
    /\ LET step == ExtensionStep(extensions[idx].source, extensions[idx].target)
       IN  /\ step.raises = "none"
           /\ extension_schema_mappings' = step.mappings
           /\ loaded' = step.loaded
    /\ idx' = idx + 1
    /\ UNCHANGED << catalog_vars, run_vars, imported_bblocks, bblocks, pc, error, resolver_vars,
                    docs, root_schema, visited_refs, schema_nodes, schema_branches,
                    stack, output_schema, import_vars >>

ExtensionRaised ==
    /\ pc = "map" /\ idx <= Len(extensions)
    /\ LET step == ExtensionStep(extensions[idx].source, extensions[idx].target)
       IN  /\ step.raises # "none"
           /\ extension_schema_mappings' = step.mappings
           /\ loaded' = step.loaded
           /\ Raise(ExtenderError(step.raises, step.ref))
    /\ UNCHANGED << catalog_vars, run_vars, imported_bblocks, bblocks, idx, resolver_vars,
                    docs, root_schema, visited_refs, schema_nodes, schema_branches,
                    stack, output_schema, import_vars >>

----------------------------------------------------------------------------
(* Extender._process_schema: the tree walk *)

\* A call of walk_subschema in progress, or one of its loops. alias says that
\* subschema is the very dict the node holds as its subschema, so that a pop
\* from the one is a pop from the other
WalkFrame(subschema, from_schema, parent_node, alias) ==
    [kind |-> "walk", subschema |-> subschema, from_schema |-> from_schema,
     node |-> parent_node, alias |-> alias, list |-> <<>>, i |-> 0]
EntriesFrame(collection, from_schema, col_node) ==
    [kind |-> "entries", subschema |-> EmptyDict, from_schema |-> from_schema,
     node |-> col_node, alias |-> FALSE, list |-> collection, i |-> 1]
PropertiesFrame(properties, names, from_schema, properties_node) ==
    [kind |-> "properties", subschema |-> properties, from_schema |-> from_schema,
     node |-> properties_node, alias |-> FALSE, list |-> names, i |-> 1]

\* walk_subschema(subschema, from_schema, parent_node) returns at once for an
\* empty subschema
Call(st, subschema, from_schema, parent_node, alias) ==
    IF subschema = EmptyDict THEN st
    ELSE Append(st, WalkFrame(subschema, from_schema, parent_node, alias))

Top == stack[Len(stack)]
Return(st) == SubSeq(st, 1, Len(st) - 1)
ReplaceTop(st, f) == [st EXCEPT ![Len(st)] = f]

Combinators == { "oneOf", "allOf", "anyOf" }
SingleKeywords ==
    { "prefixItems", "items", "contains", "then", "else", "additionalProperties" }

\* The order in which walk_subschema looks for keywords (the modelled
\* documents have no patternProperties)
KeywordOrder ==
    << "$ref", "oneOf", "allOf", "anyOf", "prefixItems", "items", "contains",
       "then", "else", "additionalProperties", "properties" >>

NextKeyword(subschema) ==
    LET present == { i \in DOMAIN KeywordOrder : KeywordOrder[i] \in DOMAIN subschema }
    IN  IF present = {} THEN "none"
        ELSE KeywordOrder[CHOOSE i \in present : \A j \in present : i <= j]

\* Iteration order of a properties dict
NameOrder == << "p", "x", "y" >>
Names(properties) == SelectSeq(NameOrder, LAMBDA n : n \in DOMAIN properties)

SchemaNode(tag, from_schema, root, parent, is_properties, subschema) ==
    [tag |-> tag, from_schema |-> from_schema, root |-> root, preserve_branch |-> FALSE,
     parent |-> parent, is_properties |-> is_properties, subschema |-> subschema,
     children |-> <<>>]

\* create_schema_node; parent_node = 0 is None
create_schema_node(ns, branches, parent_node, tag, from_schema, is_properties, subschema) ==
    LET id == Len(ns) + 1
    IN  IF parent_node = 0
        THEN [nodes |-> Append(ns, SchemaNode(tag, from_schema, id, 0, is_properties, subschema)),
              branches |-> Append(branches, id),
              id |-> id]
        ELSE [nodes |-> Append([ns EXCEPT ![parent_node].children = Append(@, id)],
                               SchemaNode(tag, from_schema, ns[parent_node].root,
                                          parent_node, is_properties, subschema)),
              branches |-> branches,
              id |-> id]

RECURSIVE mark_preserve_branch(_, _)

\* a marking that sets the flag of the node alone
mark_preserve_branch_self_only(ns, n) ==
    IF n = 0 THEN ns ELSE [ns EXCEPT ![n].preserve_branch = TRUE]

\* SchemaNode.mark_preserve_branch
mark_preserve_branch(ns, n) ==
    IF n = 0 THEN ns
    ELSE IF ns[n].preserve_branch THEN ns
    ELSE mark_preserve_branch([ns EXCEPT ![n].preserve_branch = TRUE], ns[n].parent)

\* subschema.pop(k) seen through the node that holds the same dict
PopInNode(ns, f, k) ==
    IF f.alias THEN [ns EXCEPT ![f.node].subschema = pop(@, k)] ELSE ns

\* get_ref(schema): a Path for a file, and a Path cannot take '#' + fragment
get_ref(schema) ==
    IF schema.fragment # <<>> /\ ~IsUrlLocation(schema.location)
    THEN [raises |-> "TypeError", full_ref |-> FullRef(NoFile, <<>>)]
    ELSE [raises |-> "none", full_ref |-> FullRef(schema.location, schema.fragment)]

RECURSIVE SearchUp(_, _, _, _)

\* a search that finds nothing up the chain
SearchUp_finds_nothing(ns, pn, extension_target, acc) == acc

\* The while loop of lines 219-232 from node pn upwards
SearchUp(ns, pn, extension_target, acc) ==
    IF pn = 0 \/ acc.raises # "none" THEN acc
    ELSE IF ns[pn].tag = "$ref"
    THEN IF "x-bblocks-extension-source" \in DOMAIN ns[pn].subschema
         THEN SearchUp(ns, ns[pn].parent, extension_target, [acc EXCEPT !.skip_node = TRUE])
         ELSE LET undetected_alias == resolve_schema(ns[pn].subschema["$ref"],
                                                     ns[pn].from_schema)
                  r == get_ref(undetected_alias)
              IN  IF undetected_alias.raises # "none"
                  THEN [acc EXCEPT !.raises = undetected_alias.raises]
                  ELSE IF r.raises # "none" THEN [acc EXCEPT !.raises = r.raises]
                  ELSE SearchUp(ns, ns[pn].parent, extension_target,
                                [acc EXCEPT !.new_mappings =
                                                setitem(@, r.full_ref, extension_target),
                                            !.loaded = @ \cup {undetected_alias.location}])
    ELSE IF ns[pn].tag # "[]"
            /\ (ns[pn].tag \notin (Combinators \cup {"[]"}) \/ Len(ns[pn].children) > 1)
    THEN acc
    ELSE SearchUp(ns, ns[pn].parent, extension_target, acc)

\* What the handling of a '$ref' leaves behind
RefOutcome(raises, ns, branches, mappings, resolved, visited, st) ==
    [raises |-> raises, nodes |-> ns, branches |-> branches, mappings |-> mappings,
     loaded |-> resolved, visited |-> visited, stack |-> st]

\* an exception of lines 206-232, after subschema.pop('$ref')
RefRaised(f, e) ==
    RefOutcome(e, PopInNode(schema_nodes, f, "$ref"), schema_branches,
               extension_schema_mappings, loaded, visited_refs, stack)

NoExtensionTarget == ExtensionTarget(NoId, NoId, EmptyString)
NothingFound ==
    [raises |-> "none", skip_node |-> FALSE, new_mappings |-> EmptyDict, loaded |-> {}]

\* a walk into the target whether or not it was visited
RefVisited_always_descends(f, target_schema, up, created, ns, key) ==
    RefOutcome("none", ns, created.branches,
               update(extension_schema_mappings, up.new_mappings),
               loaded \cup {target_schema.location} \cup up.loaded,
               visited_refs \cup {key},
               Call(ReplaceTop(stack, [f EXCEPT !.subschema = pop(@, "$ref")]),
                    target_schema.subschema, Origin(target_schema), created.id, FALSE))

\* lines 247-257: the visited test and the walk into the target
RefVisited(f, target_schema, up, created, ns, key) ==
    RefOutcome("none", ns, created.branches,
               update(extension_schema_mappings, up.new_mappings),
               loaded \cup {target_schema.location} \cup up.loaded,
               visited_refs \cup {key},
               IF key \in visited_refs
               THEN Return(stack)
               ELSE Call(ReplaceTop(stack, [f EXCEPT !.subschema = pop(@, "$ref")]),
                         target_schema.subschema, Origin(target_schema), created.id, FALSE))

\* lines 240-245: the annotations of an extension point and its marking
RefNode(f, target_schema, extension_target, up, created) ==
    RefVisited(f, target_schema, up, created,
               IF extension_target # NoExtensionTarget /\ ~up.skip_node
               THEN mark_preserve_branch(created.nodes, created.id)
               ELSE created.nodes,
               FullRef(target_schema.location, target_schema.fragment))

\* lines 234-239: the node of the reference
RefSearched(f, target_schema, extension_target, up) ==
    IF up.raises # "none" THEN RefRaised(f, up.raises)
    ELSE RefNode(f, target_schema, extension_target, up,
                 IF up.skip_node
                 THEN [nodes |-> PopInNode(schema_nodes, f, "$ref"),
                       branches |-> schema_branches, id |-> f.node]
                 ELSE create_schema_node(
                          PopInNode(schema_nodes, f, "$ref"), schema_branches, f.node,
                          "$ref", f.from_schema, FALSE,
                          IF extension_target # NoExtensionTarget
                          THEN ("$ref" :> extension_target.extension_target_ref)
                               @@ ("x-bblocks-extension-source"
                                      :> extension_target.extension_source_id)
                               @@ ("x-bblocks-extension-target"
                                      :> extension_target.extension_target_id)
                          ELSE ("$ref" :> f.subschema["$ref"])))

\* lines 212-232: the lookup of the mapping and the search up the chain
RefMatched(f, target_schema, extension_target) ==
    RefSearched(f, target_schema, extension_target,
                IF extension_target # NoExtensionTarget
                THEN SearchUp(PopInNode(schema_nodes, f, "$ref"), f.node, extension_target,
                              NothingFound)
                ELSE NothingFound)

\* lines 210-212
RefNamed(f, target_schema, r) ==
    IF r.raises # "none" THEN RefRaised(f, r.raises)
    ELSE RefMatched(f, target_schema,
                    get(extension_schema_mappings, r.full_ref, NoExtensionTarget))

\* line 209
RefResolved(f, target_schema) ==
    IF target_schema.raises # "none" THEN RefRaised(f, target_schema.raises)
    ELSE RefNamed(f, target_schema, get_ref(target_schema))

\* Lines 205-257 for the call f: the '$ref' of its subschema
RefStep(f) == RefResolved(f, resolve_schema(f.subschema["$ref"], f.from_schema))

WalkRefTo(step) ==
    /\ step.raises = "none"
    /\ schema_nodes' = step.nodes
    /\ schema_branches' = step.branches
    /\ extension_schema_mappings' = step.mappings
    /\ loaded' = step.loaded
    /\ visited_refs' = step.visited
    /\ stack' = step.stack

WalkRefRaises(step) ==
    /\ step.raises # "none"
    /\ schema_nodes' = step.nodes
    /\ Raise(ExtenderError(step.raises, NoId))

\* lines 164-166 and 292: the walk starts at the parent's schema
WalkStarts ==
    /\ pc = "map" /\ idx > Len(extensions)
    /\ stack' = Call(<<>>, root_schema.full_contents, Origin(root_schema), 0, FALSE)
    /\ pc' = "walk"
    /\ UNCHANGED << catalog_vars, run_vars, imported_bblocks, bblocks, idx, error, resolver_vars,
                    docs, loaded, root_schema, extension_schema_mappings, visited_refs,
                    schema_nodes, schema_branches, output_schema, import_vars >>

WalkRef ==
    /\ pc = "walk" /\ stack # <<>>
    /\ Top.kind = "walk" /\ NextKeyword(Top.subschema) = "$ref"
    /\ \E step \in { RefStep(Top) } : WalkRefTo(step)
    /\ UNCHANGED << catalog_vars, run_vars, imported_bblocks, bblocks, pc, idx, error, resolver_vars,
                    docs, root_schema, output_schema, import_vars >>

WalkRefRaised ==
    /\ pc = "walk" /\ stack # <<>>
    /\ Top.kind = "walk" /\ NextKeyword(Top.subschema) = "$ref"
    /\ \E step \in { RefStep(Top) } : WalkRefRaises(step)
    /\ UNCHANGED << catalog_vars, run_vars, imported_bblocks, bblocks, idx, resolver_vars,
                    docs, loaded, root_schema, extension_schema_mappings, visited_refs,
                    schema_branches, stack, output_schema, import_vars >>

\* lines 259-268: a oneOf, allOf or anyOf of the subschema
WalkCollection ==
    /\ pc = "walk" /\ stack # <<>>
    /\ Top.kind = "walk" /\ NextKeyword(Top.subschema) \in Combinators
    /\ LET f == Top
           p == NextKeyword(f.subschema)
           collection == f.subschema[p]
           ns0 == PopInNode(schema_nodes, f, p)
           f1 == [f EXCEPT !.subschema = pop(@, p)]
           created == create_schema_node(ns0, schema_branches, f.node, p, f.from_schema,
                                         FALSE, EmptyDict)
       IN  IF collection # <<>>
           THEN /\ schema_nodes' = created.nodes
                /\ schema_branches' = created.branches
                /\ stack' = Append(ReplaceTop(stack, f1),
                                   EntriesFrame(collection, f.from_schema, created.id))
           ELSE /\ schema_nodes' = ns0
                /\ schema_branches' = schema_branches
                /\ stack' = ReplaceTop(stack, f1)
    /\ UNCHANGED << catalog_vars, run_vars, imported_bblocks, bblocks, pc, idx, error, resolver_vars,
                    docs, loaded, root_schema, extension_schema_mappings, visited_refs,
                    output_schema, import_vars >>

\* for entry in collection: one iteration
NextEntry ==
    /\ pc = "walk" /\ stack # <<>>
    /\ Top.kind = "entries" /\ Top.i <= Len(Top.list)
    /\ LET f == Top
           entry == f.list[f.i]
           created == create_schema_node(schema_nodes, schema_branches, f.node, "[]",
                                         f.from_schema, FALSE, entry)
       IN  /\ schema_nodes' = created.nodes
           /\ schema_branches' = created.branches
           /\ stack' = Call(ReplaceTop(stack, [f EXCEPT !.i = @ + 1]), entry,
                            f.from_schema, created.id, TRUE)
    /\ UNCHANGED << catalog_vars, run_vars, imported_bblocks, bblocks, pc, idx, error, resolver_vars,
                    docs, loaded, root_schema, extension_schema_mappings, visited_refs,
                    output_schema, import_vars >>

\* lines 270-274: prefixItems, items, contains, then, else, additionalProperties
WalkKeyword ==
    /\ pc = "walk" /\ stack # <<>>
    /\ Top.kind = "walk" /\ NextKeyword(Top.subschema) \in SingleKeywords
    /\ LET f == Top
           i == NextKeyword(f.subschema)
           l == f.subschema[i]
           ns0 == PopInNode(schema_nodes, f, i)
           f1 == [f EXCEPT !.subschema = pop(@, i)]
           created == create_schema_node(ns0, schema_branches, f.node, i, f.from_schema,
                                         FALSE, l)
       IN  /\ schema_nodes' = created.nodes
           /\ schema_branches' = created.branches
           /\ stack' = Call(ReplaceTop(stack, f1), l, f.from_schema, created.id, TRUE)
    /\ UNCHANGED << catalog_vars, run_vars, imported_bblocks, bblocks, pc, idx, error, resolver_vars,
                    docs, loaded, root_schema, extension_schema_mappings, visited_refs,
                    output_schema, import_vars >>

\* lines 276-277: the properties of the subschema
WalkProperties ==
    /\ pc = "walk" /\ stack # <<>>
    /\ Top.kind = "walk" /\ NextKeyword(Top.subschema) = "properties"
    /\ LET f == Top
           properties == f.subschema["properties"]
           ns0 == PopInNode(schema_nodes, f, "properties")
           f1 == [f EXCEPT !.subschema = pop(@, "properties")]
           created == create_schema_node(ns0, schema_branches, f.node, "properties",
                                         f.from_schema, FALSE, EmptyDict)
       IN  /\ schema_nodes' = created.nodes
           /\ schema_branches' = created.branches
           /\ stack' = Append(ReplaceTop(stack, f1),
                              PropertiesFrame(properties, Names(properties), f.from_schema,
                                              created.id))
    /\ UNCHANGED << catalog_vars, run_vars, imported_bblocks, bblocks, pc, idx, error, resolver_vars,
                    docs, loaded, root_schema, extension_schema_mappings, visited_refs,
                    output_schema, import_vars >>

\* lines 278-282: one property
NextProperty ==
    /\ pc = "walk" /\ stack # <<>>
    /\ Top.kind = "properties" /\ Top.i <= Len(Top.list)
    /\ LET f == Top
           prop_name == f.list[f.i]
           prop_schema == f.subschema[prop_name]
           created == create_schema_node(schema_nodes, schema_branches, f.node, prop_name,
                                         f.from_schema, TRUE, prop_schema)
       IN  /\ schema_nodes' = created.nodes
           /\ schema_branches' = created.branches
           /\ stack' = Call(ReplaceTop(stack, [f EXCEPT !.i = @ + 1]), prop_schema,
                            f.from_schema, created.id, TRUE)
    /\ UNCHANGED << catalog_vars, run_vars, imported_bblocks, bblocks, pc, idx, error, resolver_vars,
                    docs, loaded, root_schema, extension_schema_mappings, visited_refs,
                    output_schema, import_vars >>

\* a call or a loop has nothing left to do
WalkReturn ==
    /\ pc = "walk" /\ stack # <<>>
    /\ \/ Top.kind = "walk" /\ NextKeyword(Top.subschema) = "none"
       \/ Top.kind \in {"entries", "properties"} /\ Top.i > Len(Top.list)
    /\ stack' = Return(stack)
    /\ UNCHANGED << catalog_vars, run_vars, imported_bblocks, bblocks, pc, idx, error, resolver_vars,
                    docs, loaded, root_schema, extension_schema_mappings, visited_refs,
                    schema_nodes, schema_branches, output_schema, import_vars >>

----------------------------------------------------------------------------
(* Extender._process_schema: the output schema *)

\* The value a '$ref' gets at line 325:
\* target.location + f"#{target.fragment}" if target.fragment else ''
RewrittenRef(ref, from_schema) ==
    LET target == resolve_schema(ref, from_schema)
    IN  IF target.raises # "none" THEN [TypeErrorValue EXCEPT !.kind = target.raises]
        ELSE IF target.fragment # <<>>
        THEN IF StrConcat(target.location, target.fragment) = "TypeError"
             THEN TypeErrorValue
             ELSE AbsoluteUrl(target.location, target.fragment)
        ELSE EmptyString

\* isinstance(subschema[k], dict) / list, for the keys of the modelled documents
HoldsDict(k, is_properties) == is_properties \/ k \in SingleKeywords \cup {"properties"}
HoldsList(k, is_properties) == ~is_properties /\ k \in Combinators

\* update_refs(subschema, from_schema, is_properties) for a dict
RECURSIVE update_refs(_, _, _)
update_refs(subschema, from_schema, is_properties) ==
    IF ~is_properties /\ "x-bblocks-extension-source" \in DOMAIN subschema
    THEN subschema
    ELSE [k \in DOMAIN subschema |->
            IF ~is_properties /\ k = "$ref"
            THEN IF is_url(subschema[k]) THEN subschema[k]
                 ELSE RewrittenRef(subschema[k], from_schema)
            ELSE IF HoldsDict(k, is_properties)
            THEN update_refs(subschema[k], from_schema, ~is_properties /\ k = "properties")
            ELSE IF HoldsList(k, is_properties)
            THEN [i \in DOMAIN subschema[k] |->
                    update_refs(subschema[k][i], from_schema, FALSE)]
            ELSE subschema[k]]

\* parent_schema.setdefault('allOf', []).append(entry)
AppendTo(parent_schema, k, entries) ==
    setitem(parent_schema, k, get(parent_schema, k, <<>>) \o entries)

\* walk_branch(node, parent_schema, force_preserve_branch): parent_schema as
\* the call leaves it; WalkChildren is its loop over node.children
RECURSIVE walk_branch(_, _, _)
RECURSIVE WalkChildren(_, _, _)
WalkChildren(children, walk_parent, force_preserve_branch) ==
    IF children = <<>> THEN walk_parent
    ELSE WalkChildren(Tail(children),
                      walk_branch(Head(children), walk_parent, force_preserve_branch),
                      force_preserve_branch)

walk_branch(n, parent_schema, force_preserve_branch) ==
    LET node == schema_nodes[n]
    IN  IF ~force_preserve_branch /\ ~node.preserve_branch THEN parent_schema
        ELSE IF node.tag = "$ref" /\ node.subschema # EmptyDict /\ node.children = <<>>
        THEN IF parent_schema # EmptyDict
             THEN AppendTo(parent_schema, "allOf",
                           << update_refs(node.subschema, node.from_schema, FALSE) >>)
             ELSE update(parent_schema, update_refs(node.subschema, node.from_schema, FALSE))
        ELSE IF node.tag \in Combinators
        THEN AppendTo(parent_schema, node.tag,
                      [i \in DOMAIN node.children |->
                          walk_branch(node.children[i], EmptyDict,
                                      force_preserve_branch \/ node.tag \in {"oneOf", "anyOf"})])
        ELSE IF node.tag \notin {"[]", "$ref"} /\ node.children = <<>>
        THEN setitem(parent_schema, node.tag,
                     update_refs(node.subschema, node.from_schema, FALSE))
        ELSE IF node.tag \in {"[]", "$ref"}
        THEN WalkChildren(node.children,
                          IF node.tag = "[]"
                                \/ "x-bblocks-extension-target" \in DOMAIN node.subschema
                          THEN update(parent_schema,
                                      update_refs(node.subschema, node.from_schema, FALSE))
                          ELSE parent_schema,
                          force_preserve_branch)
        ELSE setitem(parent_schema, node.tag,
                     WalkChildren(node.children, EmptyDict, force_preserve_branch))

\* lines 294-296
root_schema_location ==
    IF IsUrlLocation(root_schema.location)
    THEN AbsoluteUrl(root_schema.location, <<>>)
    ELSE relpath(root_schema.location, ChildDir)

\* every tree of the walk, preserved or not
EveryBranch == schema_branches

\* lines 307-309: the trees that have a preserved node
PreservedBranches == SelectSeq(schema_branches, LAMBDA b : schema_nodes[b].preserve_branch)

\* lines 298-368
ComposedSchema ==
    ("$schema" :> "https://json-schema.org/draft/2020-12/schema")
    @@ ("x-bblocks-extends" :> parent_id)
    @@ ("x-bblocks-extensions" :> extensions)
    @@ ("allOf" :> (<< ("$ref" :> root_schema_location) >>
                    \o [i \in DOMAIN PreservedBranches |->
                          walk_branch(PreservedBranches[i], EmptyDict, FALSE)]))

\* The '$ref' values of a schema
RECURSIVE RefsOf(_, _)
RefsOf(subschema, is_properties) ==
    UNION { IF ~is_properties /\ k = "$ref" THEN { subschema[k] }
            ELSE IF HoldsDict(k, is_properties)
            THEN RefsOf(subschema[k], ~is_properties /\ k = "properties")
            ELSE IF HoldsList(k, is_properties)
            THEN UNION { RefsOf(subschema[k][i], FALSE) : i \in DOMAIN subschema[k] }
            ELSE {} : k \in DOMAIN subschema }

RaisedIn(schema) ==
    { r.kind : r \in RefsOf(schema, FALSE) } \ { "relative", "url", "empty" }

\* The walk is over: the output schema is built from the preserved branches
BuildOutput ==
    /\ pc = "walk" /\ stack = <<>>
    /\ \E composed \in { ComposedSchema } :
         IF RaisedIn(composed) # {}
         THEN /\ Raise(ExtenderError(CHOOSE e \in RaisedIn(composed) : TRUE, NoId))
              /\ UNCHANGED output_schema
         ELSE /\ output_schema' = composed
              /\ pc' = "composed"
              /\ UNCHANGED error
    /\ UNCHANGED << catalog_vars, run_vars, imported_bblocks, bblocks, idx, resolver_vars,
                    docs, loaded, root_schema, extension_schema_mappings, visited_refs,
                    schema_nodes, schema_branches, stack, import_vars >>

ExtenderNext ==
    \/ FragmentRejected \/ FragmentsChecked
    \/ ParentResolved \/ ParentRaised
    \/ ExtensionMapped \/ ExtensionRaised
    \/ WalkStarts
    \/ WalkRef \/ WalkRefRaised
    \/ WalkCollection \/ NextEntry
    \/ WalkKeyword
    \/ WalkProperties \/ NextProperty
    \/ WalkReturn
    \/ BuildOutput

SpecExtender == ExtenderInit /\ [][ExtenderNext]_vars

\* process_extensions has returned or raised
Stopped == pc \in {"composed", "failed"}

\* process_extensions is one synchronous call, which runs on until it has
\* returned or raised: weak fairness of its steps, with Stopped for the
\* states in which no step is enabled
SpecExtenderFair == SpecExtender /\ ([]<>Stopped \/ []<><<ExtenderNext>>_vars)

----------------------------------------------------------------------------
(* postprocess (postprocess.py) *)

\* The modelled run: output_file is set, base_url is None, every step but
\* 'annotate' is enabled, and the item directories hold no openapi.yaml, no
\* ontology, no tests and no transforms, so that lines 284-321 are skipped and
\* do_postprocess reaches its return True.

\* bb_filter: None, or an identifier (a filter that names no existing path)
Filters == { NoId, A }

\* the loop over the blocks in reverse order
building_block_reversed(i) == order[Len(order) + 1 - i]

\* for building_block in bbr.bblocks.values(): the i-th block of the loop
building_block(i) == order[i]

\* filter_id is None or building_block.identifier == filter_id
Selected(id) == filter_id = NoId \/ id = filter_id

\* try: annotate_schema(...) except Exception: if fail_on_error: raise;
\* traceback.print_exception(e)
AnnotateOutcome(raises) ==
    IF ~raises THEN "written"
    ELSE IF OnBuildException(fail_on_error) = "raise" THEN "raised"
    ELSE "logged"

\* One call of annotate_schema: the block, how the call ended and the files
\* that were on disk when it started
Annotation(id, outcome) == [id |-> id, outcome |-> outcome, disk |-> disk]

\* The registers whose run is followed: nothing is imported and the documents
\* of the blocks hold no reference, the dependencies are the declared ones
DeclaredOnly ==
    /\ imported_bblocks = <<>>
    /\ \A b \in DOMAIN item_refs : item_refs[b] = <<>>

\* imported_bblocks = ImportedBuildingBlocks(...); bbr = BuildingBlockRegister(...)
\* has returned: filter_id is computed and the first loop begins
PostprocessStarts ==
    /\ pc = "done"
    /\ DeclaredOnly
    /\ pc' = "annotating"
    /\ idx' = 1
    /\ annotate_step' \in BOOLEAN
    /\ filter_id' \in Filters
    /\ UNCHANGED << catalog_vars, imported_bblocks, bblocks, error, resolver_vars,
                    extender_vars, import_vars, id_prefix, child_bblocks, super_bblocks,
                    output_bblocks, annotations, interceptor_vars >>

\* if building_block.super_bblock: super_bblocks[files_path] = building_block; continue
SuperBlock ==
    /\ pc = "annotating" /\ idx <= Len(order)
    /\ super_bblocks' = Append(super_bblocks, building_block(idx))
    /\ idx' = idx + 1
    /\ UNCHANGED << catalog_vars, imported_bblocks, bblocks, pc, error, resolver_vars,
                    extender_vars, import_vars, id_prefix, annotate_step, filter_id,
                    child_bblocks, output_bblocks, annotations, interceptor_vars >>

\* the block is not selected, the annotate step is off or it has no schema
NotAnnotated ==
    /\ pc = "annotating" /\ idx <= Len(order)
    /\ LET id == building_block(idx)
       IN  /\ ~(Selected(id) /\ annotate_step /\ bblocks[id].schema_exists)
           /\ child_bblocks' = Append(child_bblocks, id)
    /\ idx' = idx + 1
    /\ UNCHANGED << catalog_vars, imported_bblocks, bblocks, pc, error, resolver_vars,
                    extender_vars, import_vars, id_prefix, annotate_step, filter_id,
                    super_bblocks, output_bblocks, annotations, interceptor_vars >>

\* annotate_schema returns, or raises with fail_on_error unset: lines 273-282,
\* then child_bblocks.append(building_block)
AnnotateBlock ==
    /\ pc = "annotating" /\ idx <= Len(order)
    /\ LET id == building_block(idx)
       IN  /\ Selected(id) /\ annotate_step /\ bblocks[id].schema_exists
           /\ \E raises \in BOOLEAN :
                LET outcome == AnnotateOutcome(raises)
                IN  /\ outcome # "raised"
                    /\ annotations' = Append(annotations, Annotation(id, outcome))
                    /\ disk' = IF outcome = "written"
                               THEN disk \cup AnnotatedOutputs(bblocks[id])
                               ELSE disk
           /\ child_bblocks' = Append(child_bblocks, id)
    /\ idx' = idx + 1
    /\ UNCHANGED << catalog_vars, imported_bblocks, bblocks, pc, error, found,
                    extender_vars, import_vars, id_prefix, annotate_step, filter_id,
                    super_bblocks, output_bblocks, interceptor_vars >>

\* annotate_schema raises with fail_on_error set: the exception leaves postprocess
AnnotateRaised ==
    /\ pc = "annotating" /\ idx <= Len(order)
    /\ LET id == building_block(idx)
       IN  /\ Selected(id) /\ annotate_step /\ bblocks[id].schema_exists
           /\ AnnotateOutcome(TRUE) = "raised"
           /\ annotations' = Append(annotations, Annotation(id, "raised"))
           /\ pc' = "raised"
           /\ error' = [kind |-> "annotate", id |-> id, file |-> NoFile,
                        ref |-> NoId, cycles |-> {}]
    /\ UNCHANGED << catalog_vars, imported_bblocks, bblocks, idx, resolver_vars,
                    extender_vars, import_vars, id_prefix, annotate_step, filter_id,
                    child_bblocks, super_bblocks, output_bblocks, interceptor_vars >>

\* the first loop is over: for building_block in child_bblocks (line 333)
AnnotateDone ==
    /\ pc = "annotating" /\ idx > Len(order)
    /\ pc' = "contexts"
    /\ idx' = 1
    /\ UNCHANGED << catalog_vars, imported_bblocks, bblocks, error, resolver_vars,
                    extender_vars, import_vars, postprocess_vars, interceptor_vars >>

\* the JSON-LD context of a child block
ContextFile(id) == AnnFile(bblocks[id].subdirs, "context.jsonld")

\* lines 334-357: write_jsonld_context for a selected child block whose
\* annotated schema is a file; an exception is raised again only with
\* fail_on_error
WriteContext ==
    /\ pc = "contexts" /\ idx <= Len(child_bblocks)
    /\ LET id == child_bblocks[idx]
       IN  IF Selected(id) /\ bblocks[id].annotated_schema \in disk
           THEN \E raises \in BOOLEAN :
                  IF raises /\ fail_on_error
                  THEN /\ pc' = "raised"
                       /\ error' = [kind |-> "context", id |-> id, file |-> NoFile,
                                    ref |-> NoId, cycles |-> {}]
                       /\ UNCHANGED << idx, disk >>
                  ELSE /\ disk' = IF raises THEN disk ELSE disk \cup { ContextFile(id) }
                       /\ idx' = idx + 1
                       /\ UNCHANGED << pc, error >>
           ELSE /\ idx' = idx + 1
                /\ UNCHANGED << pc, error, disk >>
    /\ UNCHANGED << catalog_vars, imported_bblocks, bblocks, found,
                    extender_vars, import_vars, postprocess_vars, interceptor_vars >>

\* the contexts are written: for building_block in chain(child_bblocks, super_bblocks)
ContextsDone ==
    /\ pc = "contexts" /\ idx > Len(child_bblocks)
    /\ pc' = "postprocessing"
    /\ idx' = 1
    /\ UNCHANGED << catalog_vars, imported_bblocks, bblocks, error, resolver_vars,
                    extender_vars, import_vars, postprocess_vars, interceptor_vars >>

\* if do_postprocess(building_block, light): output_bblocks.append(metadata);
\* do_postprocess returns True (line 212)
DoPostprocess ==
    /\ pc = "postprocessing"
    /\ LET chain == child_bblocks \o super_bblocks
       IN  /\ idx <= Len(chain)
           /\ output_bblocks' = Append(output_bblocks, chain[idx])
    /\ idx' = idx + 1
    /\ UNCHANGED << catalog_vars, imported_bblocks, bblocks, pc, error, resolver_vars,
                    extender_vars, import_vars, id_prefix, annotate_step, filter_id,
                    child_bblocks, super_bblocks, annotations, interceptor_vars >>

\* the register document is written and output_bblocks returned
PostprocessReturns ==
    /\ pc = "postprocessing"
    /\ idx > Len(child_bblocks \o super_bblocks)
    /\ pc' = "returned"
    /\ UNCHANGED << catalog_vars, imported_bblocks, bblocks, idx, error, resolver_vars,
                    extender_vars, import_vars, postprocess_vars, interceptor_vars >>

PostprocessNext ==
    \/ Next
    \/ PostprocessStarts
    \/ SuperBlock
    \/ NotAnnotated
    \/ AnnotateBlock
    \/ AnnotateRaised
    \/ AnnotateDone
    \/ WriteContext
    \/ ContextsDone
    \/ DoPostprocess
    \/ PostprocessReturns

SpecPostprocess == Init /\ [][PostprocessNext]_vars

----------------------------------------------------------------------------
(* http_interceptor (http_interceptor.py) *)

\* Largest number of enable / disable calls, the one at import included
MaxToggles == 4
\* Largest number of requests that are followed
MaxRequests == 1

\* A URL is the sequence of the pieces of its text; str.startswith is the
\* prefix relation on the pieces
MappedRegister == << "https://example.org/reg", "/", "register.json" >>
MappedDeep     == << "https://example.org/reg", "ister2", "/", "register.json" >>
MappedMissing  == << "https://example.org/reg", "/", "missing.json" >>
Unmapped       == << "https://other.org", "/", "register.json" >>
RequestUrls == { MappedRegister, MappedDeep, MappedMissing, Unmapped }

startswith(url, um) ==
    /\ Len(um) <= Len(url)
    /\ \A i \in 1..Len(um) : url[i] = um[i]

\* The local directories of the mappings and the files they hold
LocalDirs == { "local", "mirror" }
LocalFiles ==
    { [dir |-> "local",  rel |-> << "register.json" >>],
      [dir |-> "mirror", rel |-> << "register.json" >>],
      [dir |-> "local",  rel |-> << "ister2", "/", "register.json" >>] }

\* url_mappings arguments: None, or a dict (its items in insertion order)
None == [given |-> FALSE, items |-> <<>>]
Dict(items) == [given |-> TRUE, items |-> items]
UrlMappings ==
    { None, Dict(<<>>),
      Dict(<< [um |-> << "https://example.org/reg" >>, lp |-> "local"] >>),
      Dict(<< [um |-> << "https://example.org/reg", "/" >>, lp |-> "mirror"],
              [um |-> << "https://example.org/reg" >>, lp |-> "local"] >>) }

\* Outcomes of load_content and of a request
NoLocalFile == [dir |-> "", rel |-> <<>>]
NotMapped == [kind |-> "None", file |-> NoLocalFile]
Raises(e) == [kind |-> e, file |-> NoLocalFile]
Content(local_file) == [kind |-> "content", file |-> local_file]
Network == [kind |-> "network", file |-> NoLocalFile]

\* _url_mappings.clear(), or {k: Path(v) for k, v in url_mappings.items()}
NewMappings(m) == IF m = None THEN <<>> ELSE m.items

\* url[len(url_mapping):] without one leading '/'
rel_path(url, um) ==
    LET rest == SubSeq(url, Len(um) + 1, Len(url))
    IN  IF rest # <<>> /\ rest[1] = "/" THEN Tail(rest) ELSE rest

\* load_content(url): the first mapping whose prefix the URL starts with
load_content(url, mappings) ==
    LET hits == { i \in DOMAIN mappings : startswith(url, mappings[i].um) }
    IN  IF hits = {} THEN NotMapped
        ELSE LET first == CHOOSE i \in hits : \A j \in hits : i <= j
                 local_file == [dir |-> mappings[first].lp,
                                rel |-> rel_path(url, mappings[first].um)]
             IN  IF local_file \notin LocalFiles
                 THEN Raises("IOError")
                 ELSE Content(local_file)

\* The module while it is imported, before the register is built: lines 10-14
\* have run
InterceptorInit ==
    /\ tree = <<>>
    /\ fail_on_error = FALSE
    /\ imported_bblocks = <<>>
    /\ pc = "scan"
    /\ idx = 1
    /\ bblocks = <<>>
    /\ order = <<>>
    /\ bblock_paths = <<>>
    /\ local_bblock_files = <<>>
    /\ imported_bblock_files = <<>>
    /\ dep_graph_nodes = {}
    /\ dep_graph_edges = {}
    /\ error = NoError
    /\ log = {}
    /\ item_docs = <<>>
    /\ item_refs = <<>>
    /\ disk = {}
    /\ found = <<>>
    /\ ExtenderIdle
    /\ ImportIdle
    /\ PostprocessIdle
    /\ InterceptorIdle

\* enable(url_mappings); the first call is the one at the end of the module
\* (line 117), made when the module is imported
Enable ==
    /\ Len(calls) < MaxToggles
    /\ \E m \in UrlMappings :
         /\ calls = <<>> => m = None
         /\ url_mappings' = NewMappings(m)
         /\ calls' = Append(calls, [call |-> "enable", url_mappings |-> m])
    /\ IF ~mocked
       THEN /\ urlopen' = "mock"
            /\ session_request' = "mock"
            /\ mocked' = TRUE
       ELSE UNCHANGED << mocked, urlopen, session_request >>
    /\ UNCHANGED served
    /\ UNCHANGED << catalog_vars, imported_bblocks, bblocks, pc, idx, error, resolver_vars,
                    extender_vars, import_vars, postprocess_vars >>

\* disable()
Disable ==
    /\ calls # <<>>
    /\ Len(calls) < MaxToggles
    /\ urlopen' = "original"
    /\ session_request' = "original"
    /\ calls' = Append(calls, [call |-> "disable", url_mappings |-> None])
    /\ UNCHANGED << url_mappings, mocked, served >>
    /\ UNCHANGED << catalog_vars, imported_bblocks, bblocks, pc, idx, error, resolver_vars,
                    extender_vars, import_vars, postprocess_vars >>

\* What a call of the function installed under a name answers
Answer(installed, url) ==
    IF installed = "original" THEN Network
    ELSE LET content == load_content(url, url_mappings)
         IN  IF content = NotMapped THEN Network ELSE content

\* urllib.request.urlopen(url)
UrlOpen ==
    /\ calls # <<>>
    /\ Len(served) < MaxRequests
    /\ \E url \in RequestUrls :
         served' = Append(served, [via |-> "urlopen", url |-> url,
                                   answer |-> Answer(urlopen, url),
                                   after |-> calls, url_mappings |-> url_mappings])
    /\ UNCHANGED << url_mappings, mocked, urlopen, session_request, calls >>
    /\ UNCHANGED << catalog_vars, imported_bblocks, bblocks, pc, idx, error, resolver_vars,
                    extender_vars, import_vars, postprocess_vars >>

\* requests.Session.request(method, url)
SessionRequest ==
    /\ calls # <<>>
    /\ Len(served) < MaxRequests
    /\ \E url \in RequestUrls :
         served' = Append(served, [via |-> "requests", url |-> url,
                                   answer |-> Answer(session_request, url),
                                   after |-> calls, url_mappings |-> url_mappings])
    /\ UNCHANGED << url_mappings, mocked, urlopen, session_request, calls >>
    /\ UNCHANGED << catalog_vars, imported_bblocks, bblocks, pc, idx, error, resolver_vars,
                    extender_vars, import_vars, postprocess_vars >>

InterceptorNext ==
    \/ Enable
    \/ Disable
    \/ UrlOpen
    \/ SessionRequest

SpecInterceptor == InterceptorInit /\ [][InterceptorNext]_vars

----------------------------------------------------------------------------
(* Identifiers as text: any prefix, directory names with dots (models.py) *)

\* Above, the prefix is 'ogc.' and no directory name holds a dot, so that an
\* identifier is the sequence of its segments. Here a str is the sequence of
\* its pieces, the dot being a piece of its own: 'ogc.a' is <<"ogc", ".", "a">>.

\* Largest number of bblock.json files in the tree
MaxTree == 2

\* The prefixes '', 'ogc.' and 'org.ogc.'
Prefixes == { <<>>, << "ogc", "." >>, << "org", ".", "ogc", "." >> }

\* The text of a directory name
Text(part) == IF part = "a.x" THEN << "a", ".", "x" >> ELSE << part >>

\* rel_parts of the directories that can hold a bblock.json
PrefixItemPaths ==
    { <<"a">>, <<"b">>, <<"a", "x">>, <<"b", "x">>, <<"a.x">>, <<"_x">>, <<"_x", "a">> }

\* '.'.join(texts)
RECURSIVE join(_)
join(texts) ==
    IF texts = <<>> THEN <<>>
    ELSE IF Len(texts) = 1 THEN texts[1]
    ELSE texts[1] \o << "." >> \o join(Tail(texts))

\* text.split('.'): the segments between the dots
RECURSIVE split(_)
split(text) ==
    IF \A i \in DOMAIN text : text[i] # "."
    THEN << text >>
    ELSE LET d == CHOOSE i \in DOMAIN text :
                     text[i] = "." /\ \A j \in 1..(i - 1) : text[j] # "."
         IN  << SubSeq(text, 1, d - 1) >> \o split(SubSeq(text, d + 1, Len(text)))

\* pathlib.Path(*segments): empty segments leave no part
Path(segments) == SelectSeq(segments, LAMBDA s : s # <<>>)

\* identifier[-1] of the empty string
IndexError == << "IndexError" >>

\* get_bblock_identifier(metadata_file, root_path, prefix) on text
get_bblock_identifier_str(rel_parts, id_prefix_) ==
    LET kept == SelectSeq(rel_parts, LAMBDA p : ~StartsWithUnderscore(p))
        identifier == id_prefix_ \o join([i \in DOMAIN kept |-> Text(kept[i])])
    IN  IF identifier = <<>> THEN IndexError
        ELSE IF identifier[Len(identifier)] = "."
        THEN SubSeq(identifier, 1, Len(identifier) - 1)
        ELSE identifier

\* BuildingBlock.__init__, lines 69-71: self.subdirs
subdirs_of(identifier, rel_parts) ==
    IF \E i \in DOMAIN identifier : identifier[i] = "."
    THEN Path(Tail(split(identifier)))
    ELSE [i \in DOMAIN rel_parts |-> Text(rel_parts[i])]

\* BuildingBlock.__init__ for an item directory with valid metadata and a
\* schema.yaml: the paths of the block
BuildingBlockPaths(identifier, rel_parts) ==
    LET subdirs == subdirs_of(identifier, rel_parts)
    IN  [identifier       |-> identifier,
         subdirs          |-> subdirs,
         files_path       |-> rel_parts,
         schema           |-> SrcFile([i \in DOMAIN rel_parts |-> Text(rel_parts[i])],
                                      "schema.yaml"),
         annotated_path   |-> subdirs,
         annotated_schema |-> AnnFile(subdirs, "schema.yaml")]

PrefixInit ==
    /\ \E files \in SUBSET PrefixItemPaths :
          /\ Cardinality(files) <= MaxTree
          /\ tree = sorted(files)
    /\ id_prefix \in Prefixes
    /\ fail_on_error = FALSE
    /\ imported_bblocks = <<>>
    /\ pc = "scan"
    /\ idx = 1
    /\ bblocks = <<>>
    /\ order = <<>>
    /\ bblock_paths = <<>>
    /\ local_bblock_files = <<>>
    /\ imported_bblock_files = <<>>
    /\ dep_graph_nodes = {}
    /\ dep_graph_edges = {}
    /\ error = NoError
    /\ log = {}
    /\ item_docs = <<>>
    /\ item_refs = <<>>
    /\ disk = {}
    /\ found = <<>>
    /\ ExtenderIdle
    /\ ImportIdle
    /\ annotate_step = TRUE
    /\ filter_id = NoId
    /\ child_bblocks = <<>>
    /\ super_bblocks = <<>>
    /\ output_bblocks = <<>>
    /\ annotations = <<>>
    /\ InterceptorIdle

\* lines 321-330 for the next metadata file: the block is built and stored
PrefixScan ==
    /\ pc = "scan" /\ idx <= Len(tree)
    /\ LET bblock_id == get_bblock_identifier_str(tree[idx], id_prefix)
       IN  /\ bblock_id # IndexError
           /\ bblock_id \notin DOMAIN bblocks
           /\ bblocks' = Put(bblocks, {bblock_id}, BuildingBlockPaths(bblock_id, tree[idx]))
           /\ order' = Append(order, bblock_id)
           /\ bblock_paths' = Put(bblock_paths, {tree[idx]}, bblock_id)
    /\ idx' = idx + 1
    /\ UNCHANGED << tree, fail_on_error, imported_bblocks, pc, local_bblock_files,
                    imported_bblock_files, dep_graph_nodes, dep_graph_edges,
                    error, log, item_docs, item_refs >>
    /\ UNCHANGED non_register_vars

\* lines 322-324: identifier[-1] of an empty identifier, or a duplicate id
PrefixScanRaised ==
    /\ pc = "scan" /\ idx <= Len(tree)
    /\ LET bblock_id == get_bblock_identifier_str(tree[idx], id_prefix)
       IN  /\ bblock_id = IndexError \/ bblock_id \in DOMAIN bblocks
           /\ Raise([kind |-> IF bblock_id = IndexError THEN "IndexError" ELSE "duplicate",
                     id |-> bblock_id, file |-> NoFile, ref |-> NoId, cycles |-> {}])
    /\ UNCHANGED << tree, fail_on_error, imported_bblocks, idx, bblocks, order,
                    bblock_paths, local_bblock_files, imported_bblock_files,
                    dep_graph_nodes, dep_graph_edges, log, item_docs, item_refs >>
    /\ UNCHANGED non_register_vars

\* lines 341-349 for the next block: its source and annotated schema are keys
\* of local_bblock_files
PrefixRegisterFiles ==
    /\ pc = "scan" /\ idx > Len(tree)
    /\ idx - Len(tree) <= Len(order)
    /\ LET bblock_id == order[idx - Len(tree)]
       IN  local_bblock_files' =
              Put(local_bblock_files,
                  { bblocks[bblock_id].schema, bblocks[bblock_id].annotated_schema },
                  bblock_id)
    /\ idx' = idx + 1
    /\ UNCHANGED << tree, fail_on_error, imported_bblocks, pc, bblocks, order,
                    bblock_paths, imported_bblock_files, dep_graph_nodes,
                    dep_graph_edges, error, log, item_docs, item_refs >>
    /\ UNCHANGED non_register_vars

\* the blocks declare no dependency: lines 370-390 leave the maps as they are
PrefixDone ==
    /\ pc = "scan" /\ idx > Len(tree)
    /\ idx - Len(tree) > Len(order)
    /\ pc' = "done"
    /\ dep_graph_nodes' = DOMAIN bblocks
    /\ UNCHANGED << tree, fail_on_error, imported_bblocks, idx, bblocks, order,
                    bblock_paths, local_bblock_files, imported_bblock_files,
                    dep_graph_edges, error, log, item_docs, item_refs >>
    /\ UNCHANGED non_register_vars

PrefixNext ==
    \/ PrefixScan
    \/ PrefixScanRaised
    \/ PrefixRegisterFiles
    \/ PrefixDone

SpecPrefix == PrefixInit /\ [][PrefixNext]_vars

----------------------------------------------------------------------------
(* Vocabulary of the properties *)

Pos(s, x) == CHOOSE i \in 1..Len(s) : s[i] = x

ItemId(item) == get_bblock_identifier(item).identifier

\* The item a local block was built from
ItemOf(id) == bblocks[id].files_path

\* What bblock.json of a local block declared before inferred edges were merged
Declared(id) == item_docs[ItemOf(id)].doc.dependsOn.ids

\* Edges d -> b read from the catalog: b depends on d
LocalDependsOnEdges ==
    { e \in (dep_graph_nodes \cup DOMAIN bblocks) \X DOMAIN bblocks :
        e[1] \in bblocks[e[2]].metadata.dependsOn.ids }

ImportedDependsOnEdges ==
    UNION { { <<d, imported_bblocks[i].itemIdentifier>> : d \in imported_bblocks[i].dependsOn } :
            i \in DOMAIN imported_bblocks }

UnionEdges == LocalDependsOnEdges \cup ImportedDependsOnEdges

RECURSIVE Closure(_)
Closure(R) ==
    LET R2 == R \cup { <<e[1], f[2]>> : <<e, f>> \in { ef \in R \X R : ef[1][2] = ef[2][1] } }
    IN  IF R2 = R THEN R ELSE Closure(R2)

HasCycle(R) == \E e \in Closure(R) : e[1] = e[2]

Completed == pc \in {"sort", "done"}

----------------------------------------------------------------------------
(* Properties *)

\* C1: after construction succeeds, for every dependency edge A -> B of the
\* graph between two local blocks (B depends on A), A comes before B in the
\* iteration order of register.bblocks, which lists every local block once.
C1_TopologicalValidity ==
    pc = "done" =>
        /\ Range(order) = DOMAIN bblocks
        /\ Len(order) = Cardinality(DOMAIN bblocks)
        /\ \A e \in dep_graph_edges :
             (e[1] \in DOMAIN bblocks /\ e[2] \in DOMAIN bblocks)
                => Pos(order, e[1]) < Pos(order, e[2])

\* C1 witness: ogc.a depends on ogc.b, so the sorted scan order a, b was reversed
C1_Witness ==
    /\ pc = "done"
    /\ <<B, A>> \in dep_graph_edges
    /\ order = <<B, A>>

\* C2: construction never gets past the cycle check when the union of inferred,
\* declared and imported dependsOn edges has a cycle; it fails there with the
\* circular-dependency error.
C2_NeverCompletesCyclic ==
    /\ Completed => (~HasCycle(UnionEdges) /\ ~HasCycle(dep_graph_edges))
    /\ (pc = "failed" /\ error.kind = "circular") => HasCycle(UnionEdges)

\* C2 witness: a cycle through two local blocks and an imported one was reported
C2_Witness ==
    /\ pc = "failed" /\ error.kind = "circular"
    /\ {A, B, P} \subseteq dep_graph_nodes
    /\ \E c \in error.cycles : Len(c) = 4 /\ {A, B, P} \subseteq Range(c)

\* The list c of which p is the rendering
RenderedCycle(p) == [i \in 1..(Len(p) - 1) |-> p[Len(p) - i]]

\* "X -> Y" is a dependency of the graph: X depends on Y
IsDependency(x, y) == <<y, x>> \in dep_graph_edges

\* The reported paths are closed walks along dependencies through distinct
\* blocks, and every simple cycle of the graph is reported by exactly one path
CyclePathsAreTheSimpleCycles ==
    /\ error.cycles # {}
    /\ \A p \in error.cycles :
         /\ Len(p) >= 2
         /\ p[1] = p[Len(p)]
         /\ \A i \in 1..(Len(p) - 1) : IsDependency(p[i], p[i + 1])
         /\ \A i, j \in 1..(Len(p) - 1) : i # j => p[i] # p[j]
    /\ \A c \in CycleLists(dep_graph_nodes, dep_graph_edges) :
         Cardinality({ p \in error.cycles : SameCycle(c, RenderedCycle(p)) }) = 1

\* Block ogc.a declares dependsOn [ogc.b], the schema of block ogc.b
\* references bblocks://ogc.a, and nothing else adds an edge
CycleScenario ==
    /\ {A, B} \subseteq DOMAIN bblocks
    /\ {A, B} \subseteq DOMAIN item_refs
    /\ item_docs[ItemOf(A)].doc.dependsOn = [type |-> "list", ids |-> {B}]
    /\ item_docs[ItemOf(B)].doc.dependsOn = NoDependsOn
    /\ item_docs[ItemOf(A)].doc.extends = NoExtends
    /\ item_docs[ItemOf(B)].doc.extends = NoExtends
    /\ item_refs[A] = <<>>
    /\ item_refs[B] = << [ref |-> BblocksRef(A), source_fn |-> bblocks[B].schema] >>
    /\ dep_graph_edges = { <<B, A>>, <<A, B>> }

\* C3 (as amended): the circular-dependency error lists every simple cycle of
\* the graph, each as a closed arrow-joined path whose consecutive pairs X -> Y
\* are dependencies (X depends on Y); for A declaring dependsOn [B] and B
\* referencing bblocks://A the path is 'A -> B -> A' or its rotation 'B -> A -> B'.
C3_CyclePathsReported ==
    (pc = "failed" /\ error.kind = "circular") =>
        /\ CyclePathsAreTheSimpleCycles
        /\ CycleScenario => error.cycles \in { { <<A, B, A>> }, { <<B, A, B>> } }

\* C3 witness: two cycles reported at once, one of them of three blocks
C3_Witness ==
    /\ pc = "failed" /\ error.kind = "circular"
    /\ Cardinality(error.cycles) >= 2
    /\ \E p \in error.cycles : Len(p) = 4

\* C3 witness of the scenario: the A/B cycle reported
C3_ScenarioWitness ==
    /\ pc = "failed" /\ error.kind = "circular"
    /\ CycleScenario

\* C3 (original statement): as above, but in the scenario the reported path
\* is exactly 'A -> B -> A'.
C3_Original ==
    (pc = "failed" /\ error.kind = "circular") =>
        /\ CyclePathsAreTheSimpleCycles
        /\ CycleScenario => error.cycles = { << A, B, A >> }

\* Two scanned items with the same computed identifier
DuplicateScanned ==
    \E i, j \in 1..Len(tree) :
        /\ i < j
        /\ ItemId(tree[i]) = ItemId(tree[j])
        /\ \/ pc = "scan" /\ idx > j
           \/ pc \notin {"scan", "failed"}

\* C4 (original statement): a tree with two metadata files of equal computed
\* identifier always ends in the duplicate-identifier error: construction never
\* gets past the second of the two items.
C4_DuplicateAlwaysFatal == ~DuplicateScanned

InvalidScanned == { item \in DOMAIN item_docs : ~item_docs[item].doc.valid }

\* C5 (original statement): once a block's metadata has failed structural
\* validation, construction has failed, whatever fail_on_error is.
C5_Original == InvalidScanned # {} => pc = "failed"

\* C5 (as amended): a block whose metadata fails structural validation makes
\* construction fail when fail_on_error is set; when it is unset the block is
\* logged and skipped (it is not in the catalog) and no build error is raised.
C5_InvalidMetadataPerSwitch ==
    \A item \in InvalidScanned :
        IF fail_on_error
        THEN pc = "failed" /\ error.kind = "build" /\ error.id = ItemId(item)
        ELSE /\ item \in log
             /\ item \notin DOMAIN bblock_paths
             /\ error.kind # "build"

\* C5 witness: construction completed although an item with invalid metadata
\* was scanned
C5_Witness ==
    /\ pc = "done"
    /\ InvalidScanned # {}
    /\ ~fail_on_error

\* C5 witness with the switch set: the validation error aborted construction
C5_WitnessRaised ==
    /\ pc = "failed" /\ error.kind = "build"
    /\ InvalidScanned # {}
    /\ fail_on_error

\* The files an item would contribute to the known-file maps
ItemFiles(item) ==
    { SrcFile(item, "schema.yaml"), SrcFile(item, "openapi.yaml") }

\* C6 (original statement): with fail_on_error unset an item whose Block
\* construction raised is logged and skipped: no catalog entry, no known-file
\* entry and no entry of the build order comes from it, and its identifier is
\* not a node of the dependency graph unless a built item has that identifier;
\* with fail_on_error set the error aborts construction.
C6_SkippedItemAbsent ==
    \A item \in DOMAIN item_docs :
        ConstructorRaises(item_docs[item]) =>
            IF fail_on_error
            THEN pc = "failed" /\ error.kind = "build" /\ error.id = ItemId(item)
            ELSE /\ item \in log
                 /\ item \notin DOMAIN bblock_paths
                 /\ \A b \in DOMAIN bblocks : bblocks[b].files_path # item
                 /\ ItemFiles(item) \cap DOMAIN local_bblock_files = {}
                 /\ \A i \in DOMAIN order : bblocks[order[i]].files_path # item
                 /\ ItemId(item) \notin DOMAIN bblocks
                        => ItemId(item) \notin dep_graph_nodes

\* The references of a resolved block that name a block unknown to the register
UnknownBblocksRefs(id) ==
    { i \in DOMAIN item_refs[id] :
        /\ item_refs[id][i].ref.kind = "bblocks"
        /\ item_refs[id][i].ref.id # id
        /\ item_refs[id][i].ref.id \notin (DOMAIN bblocks \cup ImportedIds) }

SelfBblocksRefs(id) ==
    { i \in DOMAIN item_refs[id] :
        item_refs[id][i].ref.kind = "bblocks" /\ item_refs[id][i].ref.id = id }

\* C7: a bblocks://<id> reference to an identifier that is neither local nor
\* imported aborts construction with an error naming the referencing block and
\* the source file, for both values of fail_on_error; a bblocks:// reference to
\* the block's own identifier raises nothing and adds no dependency.
C7_MissingImportFatal ==
    \A id \in DOMAIN item_refs :
        /\ \A i \in UnknownBblocksRefs(id) :
             /\ pc = "failed"
             /\ error.kind = "missing_import"
             /\ error.id = id
             /\ error.file = item_refs[id][i].source_fn
             /\ error.ref = item_refs[id][i].ref.id
        /\ (SelfBblocksRefs(id) # {} /\ SelfBblocksRefs(id) = DOMAIN item_refs[id]) =>
             /\ error.id # id
             /\ id \notin Declared(id) =>
                  /\ id \notin bblocks[id].metadata.dependsOn.ids
                  /\ <<id, id>> \notin dep_graph_edges

\* C7 witness: with fail_on_error unset a reference to an unknown block aborted
\* construction
C7_Witness ==
    /\ pc = "failed" /\ error.kind = "missing_import"
    /\ ~fail_on_error
    /\ \E id \in DOMAIN item_refs : UnknownBblocksRefs(id) # {}

\* C7 witness of the self-reference: construction completed with a block that
\* references bblocks://<its own identifier>
C7_WitnessSelf ==
    /\ pc = "done"
    /\ \E id \in DOMAIN item_refs : SelfBblocksRefs(id) # {}

\* C8 (original statement): for every local block that declares extends, as a
\* string or as an object with itemIdentifier, the graph has an edge from the
\* extends target to the block once its dependencies are resolved.
C8_ExtendsEdge ==
    pc \in {"cycles", "sort", "done"} =>
        \A b \in DOMAIN bblocks :
            (bblocks[b].metadata.extends.type # "absent"
                /\ bblocks[b].metadata.extends.id # b)
            => <<bblocks[b].metadata.extends.id, b>> \in dep_graph_edges

\* C9 (original statement): the dependency graph never contains a self-edge
\* X -> X for a local block X, and X is not listed in its own dependsOn.
C9_NoSelfEdge ==
    \A x \in DOMAIN bblocks :
        /\ <<x, x>> \notin dep_graph_edges
        /\ x \in DOMAIN item_refs => x \notin bblocks[x].metadata.dependsOn.ids

\* C10 (original statement): after construction succeeds every node of the
\* dependency graph is the identifier of a local block or of an imported summary.
C10_NodesAreKnown ==
    pc = "done" => dep_graph_nodes \subseteq (DOMAIN bblocks \cup ImportedIds)

----------------------------------------------------------------------------
(* Properties of RegisterSchemaResolver *)

\* The local blocks whose raw schema location or annotated-schema location
\* the argument of a call names
NamedSchemaOwners(s) ==
    { b \in DOMAIN bblocks :
        /\ bblocks[b].schema_exists
        /\ s.file \in { bblocks[b].schema, bblocks[b].annotated_schema }
        /\ s.type = "Path" \/ s.spelling = "relpath" }

\* C11 (original statement): for a reference that names a known local block's
\* raw schema location or its annotated-schema location, find_schema returns
\* the block's annotated schema file when that file is on disk at the time of
\* the call and the block's raw source schema when it is not.
C11_AnnotatedElseRaw ==
    \A i \in DOMAIN found :
        \A b \in NamedSchemaOwners(found[i].s) :
            found[i].result.file =
                IF bblocks[b].annotated_schema \in found[i].disk
                THEN bblocks[b].annotated_schema
                ELSE bblocks[b].schema

----------------------------------------------------------------------------
(* Properties of ImportedBuildingBlocks *)

\* How often url was requested
Fetches(url) == Cardinality({ i \in DOMAIN requests : requests[i] = url })

\* C20 (original statement): during one ImportedBuildingBlocks construction
\* every register URL is fetched at most once, whatever the import graph and
\* the initial URL list are.
C20_FetchedAtMostOnce == \A url \in RegisterUrls : Fetches(url) <= 1

----------------------------------------------------------------------------
(* Properties of ImportedBuildingBlocks: termination and completeness *)

\* The 'imports' of the document served for a register URL
ImportsOf(url) == IF url \in DOMAIN web THEN Range(web[url].imports) ELSE {}

\* The register URLs reachable from the given ones through 'imports'
RECURSIVE ReachableFrom(_)
ReachableFrom(urls) ==
    LET further == urls \cup UNION { ImportsOf(u) : u \in urls }
    IN  IF further = urls THEN urls ELSE ReachableFrom(further)

ReachableRegisters == ReachableFrom(Range(metadata_urls))

\* The summaries that the reachable registers list
ListedSummaries ==
    UNION { Range(web[u].bblocks) : u \in ReachableRegisters \cap DOMAIN web }

\* Every reachable register was loaded, and every summary it lists has its
\* identifier in the mapping, bound to a summary listed for that identifier
\* (an identifier listed twice keeps the summary stored last)
ImportComplete ==
    /\ ReachableRegisters \subseteq DOMAIN imported_registers
    /\ \A s \in ListedSummaries :
         \E k \in DOMAIN imported_bblocks :
            /\ imported_bblocks[k].itemIdentifier = s.itemIdentifier
            /\ imported_bblocks[k] \in ListedSummaries
    /\ \A k \in DOMAIN imported_bblocks : imported_bblocks[k] \in ListedSummaries

C28_WitnessSelfImport ==
    /\ pc = "imported"
    /\ metadata_urls = << << "https://register", 1 >> >>
    /\ web[<< "https://register", 1 >>].imports = << << "https://register", 1 >> >>
    /\ requests = << << "https://register", 1 >> >>

----------------------------------------------------------------------------
(* Properties of Extender *)

\* The identifiers with a fragment a declaration can name
FragmentIdentifiers == { WithFragment(A), WithFragment(S), WithFragment(T) }

DeclaredIdentifiers ==
    {parent_id} \cup { extensions[i].source : i \in DOMAIN extensions }
                \cup { extensions[i].target : i \in DOMAIN extensions }

\* The metadata of the extending block is as BuildingBlock.__init__ left it
MetadataUntouched == bblocks[Child].metadata.itemClass = "schema"

\* C12: a declaration whose parent, source or target identifier contains '#'
\* is rejected with the fragment error; no schema has been resolved, the
\* extending block's metadata is unmodified and there is no output schema.
C12_FragmentRejected ==
    (DeclaredIdentifiers \cap FragmentIdentifiers # {} /\ pc # "check")
        => /\ pc = "failed"
           /\ error.kind = "fragment"
           /\ loaded = {}
           /\ MetadataUntouched
           /\ output_schema = EmptyDict

\* the rejected declaration names a fragment of its target only, under a
\* parent that is a block of the register with its schema on disk
C12_Witness ==
    /\ pc = "failed" /\ error.kind = "fragment"
    /\ parent_id = A /\ ParentLocation \in disk
    /\ extensions = << [source |-> S, target |-> WithFragment(T)] >>

\* A side of a substitution pair has a resolvable schema: a local block with
\* its annotated schema on disk, or an imported block with a YAML schema URL
Resolvable(id) ==
    \/ id \in DOMAIN bblocks /\ bblocks[id].annotated_schema \in disk
    \/ /\ id \notin DOMAIN bblocks
       /\ id \in ImportedIds
       /\ ApplicationYaml(id) \in ImportedBlock(id).schema

UnresolvablePairs ==
    { i \in DOMAIN extensions :
        ~Resolvable(extensions[i].source) \/ ~Resolvable(extensions[i].target) }

\* C13: with a substitution pair of which a side has no resolvable schema,
\* the loop over the pairs never gets past that pair: the call fails, no walk
\* of the parent's schema starts with the map built so far and there is no
\* composed schema.
C13_UnresolvableSideFatal ==
    UnresolvablePairs # {}
        => /\ \/ pc \in {"check", "parent", "failed"}
              \/ pc = "map" /\ \A i \in UnresolvablePairs : idx <= i
           /\ stack = <<>>
           /\ schema_nodes = <<>>
           /\ output_schema = EmptyDict

\* the parent resolved, the first pair mapped and the second one's source is
\* known neither locally nor in the imports
C13_Witness ==
    /\ pc = "failed" /\ error.kind = "KeyError" /\ error.ref = U
    /\ loaded # {}
    /\ idx = 2
    /\ DOMAIN extension_schema_mappings # {}

\* a child is never preserved while its parent is not
ParentsPreserved ==
    \A n \in DOMAIN schema_nodes :
        (schema_nodes[n].parent # 0 /\ schema_nodes[n].preserve_branch)
            => schema_nodes[schema_nodes[n].parent].preserve_branch

\* a step of the composer keeps every node and every flag that is set
FlagsKept ==
    \A n \in DOMAIN schema_nodes :
        /\ n \in DOMAIN schema_nodes'
        /\ schema_nodes[n].preserve_branch => schema_nodes'[n].preserve_branch

\* C14: in every state of the tree walk a preserved node with a parent has a
\* preserved parent, and no step resets a preserve_branch flag.
C14_PreserveMonotone == []ParentsPreserved /\ [][FlagsKept]_vars

\* a preserved node two levels below its root, beside a node of the same
\* tree that is not preserved
C14_Witness ==
    \E n, m \in DOMAIN schema_nodes :
        /\ schema_nodes[n].preserve_branch
        /\ schema_nodes[n].parent # 0
        /\ schema_nodes[schema_nodes[n].parent].parent # 0
        /\ ~schema_nodes[m].preserve_branch
        /\ schema_nodes[m].root = schema_nodes[n].root

\* Which of the parent shapes the parent's schema has
ShapeIs(shape) ==
    \E source \in {SourceLocation, ImportedYaml} :
        /\ docs[ParentLocation] = ParentContents(shape, RefFrom(ParentLocation, source))
        /\ docs[HolderLocation] = HolderContents(shape, RefFrom(HolderLocation, source))

\* The one substitution pair of the declaration
Substitutes(source, target) ==
    /\ parent_id = A
    /\ extensions = << [source |-> source, target |-> target] >>

\* The schema of the declared source is the document the parent refers to
RefersTo(source) ==
    \E shape \in ParentShapes, source_shape \in SourceShapes :
        docs = Documents(shape, IF source = P THEN ImportedYaml ELSE SourceLocation,
                         source_shape)

\* The extension-point nodes of the walk
ExtensionNodes ==
    { n \in DOMAIN schema_nodes :
        "x-bblocks-extension-source" \in DOMAIN schema_nodes[n].subschema }

\* The object that stands for the substitution of source by the local target
ExtensionPoint(source, target) ==
    ("$ref" :> relpath(bblocks[target].annotated_schema, ChildDir))
    @@ ("x-bblocks-extension-source" :> source)
    @@ ("x-bblocks-extension-target" :> target)

\* The object has the reference and the annotations of the extension point
Carries(subschema, point) ==
    \A k \in DOMAIN point : k \in DOMAIN subschema /\ subschema[k] = point[k]

IndexKey == << "1", "2", "3", "4", "5", "6" >>

\* The paths (keys and list positions) of the extension points of a schema
RECURSIVE PointPaths(_, _, _)
PointPaths(subschema, is_properties, path) ==
    IF ~is_properties /\ "x-bblocks-extension-source" \in DOMAIN subschema
    THEN { path }
    ELSE UNION { IF HoldsDict(k, is_properties)
                 THEN PointPaths(subschema[k], ~is_properties /\ k = "properties",
                                 Append(path, k))
                 ELSE IF HoldsList(k, is_properties)
                 THEN UNION { PointPaths(subschema[k][i], FALSE,
                                         path \o << k, IndexKey[i] >>) :
                              i \in DOMAIN subschema[k] }
                 ELSE {} : k \in DOMAIN subschema }

\* get_branch for a path of PointPaths
RECURSIVE AtPath(_, _)
AtPath(subschema, path) ==
    IF path = <<>> THEN subschema
    ELSE IF Head(path) \in Combinators
    THEN AtPath(subschema[Head(path)]
                    [CHOOSE i \in DOMAIN IndexKey : IndexKey[i] = path[2]],
                Tail(Tail(path)))
    ELSE AtPath(subschema[Head(path)], Tail(path))

\* The occurrences of the source in the parent's schema tree, by shape
Occurrences ==
    IF ShapeIs("wrapper_twice") \/ ShapeIs("two") \/ ShapeIs("shared") THEN 2
    ELSE IF ShapeIs("no_match") \/ ShapeIs("fragment") \/ ShapeIs("self_ref")
            \/ ShapeIs("mutual")
    THEN 0 ELSE 1

\* The parent reaches the source only through the wrapper schema, or the
\* source itself is such a wrapper of a further schema
ThroughWrapper ==
    \/ ShapeIs("wrapper") \/ ShapeIs("wrapper_twice")
    \/ docs[ImportedYaml] = SourceContents("alias", ImportedYaml) /\ Occurrences = 1

\* C17: with the source reached through a single-entry allOf wrapper, every
\* occurrence yields exactly one extension-point node, carrying the target
\* reference, and exactly one extension point in the composed schema.
C17_AliasTransparent ==
    \A source \in {S, P} :
        (pc = "composed" /\ Substitutes(source, T) /\ RefersTo(source) /\ ThroughWrapper)
            => /\ Cardinality(ExtensionNodes) = Occurrences
               /\ \A n \in ExtensionNodes :
                    /\ schema_nodes[n].subschema = ExtensionPoint(source, T)
                    /\ schema_nodes[n].preserve_branch
               /\ Cardinality(PointPaths(output_schema, FALSE, <<>>)) = Occurrences
               /\ \A path \in PointPaths(output_schema, FALSE, <<>>) :
                    Carries(AtPath(output_schema, path), ExtensionPoint(source, T))

\* the parent's property refers to the wrapper and the wrapper to the source
C17_Witness ==
    /\ pc = "composed" /\ Substitutes(S, T) /\ RefersTo(S)
    /\ ShapeIs("wrapper")
    /\ Cardinality(ExtensionNodes) = 1
    /\ PointPaths(output_schema, FALSE, <<>>) # {}

\* the source is itself a wrapper of a further schema
C17_WitnessAliasSource ==
    /\ pc = "composed" /\ Substitutes(P, T) /\ RefersTo(P)
    /\ docs[ImportedYaml] = SourceContents("alias", ImportedYaml)
    /\ ShapeIs("single_allOf")
    /\ Cardinality(ExtensionNodes) = 1

\* The reference to the parent's schema the composed schema starts with
ParentRef == ("$ref" :> relpath(ParentLocation, ChildDir))

\* The parent is a top-level allOf whose only entry is a $ref to the schema
\* of ogc.s, a schema without sub-structure, and ogc.b substitutes ogc.t
ConcreteScenario ==
    /\ Substitutes(S, T)
    /\ docs = Documents("single_allOf", SourceLocation, "plain")

\* C16 (original statement): in the concrete scenario the composed schema's
\* allOf is exactly the parent reference followed by the extension point, a
\* direct element of the list and not nested inside a further allOf.
C16_ScenarioOutput ==
    (pc = "composed" /\ ConcreteScenario)
        => output_schema["allOf"] = << ParentRef, ExtensionPoint(S, T) >>

\* What the composer emits in the scenario: the extension point is the only
\* entry of an allOf inside the second element
C16_Nested ==
    (pc = "composed" /\ ConcreteScenario)
        => output_schema["allOf"] =
              << ParentRef, ("allOf" :> << ExtensionPoint(S, T) >>) >>

C16_ScenarioReached == pc = "composed" /\ ConcreteScenario

\* The keys of an object that hold objects or lists of objects
Structural(subschema, is_properties) ==
    { k \in DOMAIN subschema : HoldsDict(k, is_properties) \/ HoldsList(k, is_properties) }

\* The object holds nothing but the way to extension points: it is an
\* extension point, or an empty placeholder, or an object of the path with
\* the one key that leads on (beside the plain keywords the object itself
\* has). With forced set, the entries of a oneOf or anyOf are free.
RECURSIVE PathOnly(_, _, _)
PathOnly(subschema, is_properties, forced) ==
    IF ~is_properties /\ "x-bblocks-extension-source" \in DOMAIN subschema THEN TRUE
    ELSE IF subschema = EmptyDict THEN TRUE
    ELSE /\ Cardinality(Structural(subschema, is_properties)) = 1
         /\ \A k \in Structural(subschema, is_properties) :
              IF HoldsDict(k, is_properties)
              THEN PathOnly(subschema[k], ~is_properties /\ k = "properties", forced)
              ELSE \A i \in DOMAIN subschema[k] :
                      \/ forced /\ k \in {"oneOf", "anyOf"}
                      \/ subschema[k][i] = EmptyDict
                      \/ /\ PointPaths(subschema[k][i], FALSE, <<>>) # {}
                         /\ PathOnly(subschema[k][i], FALSE, forced)

\* A composition of ogc.b that declares one substitution, of a source whose
\* schema the parent's documents refer to, or none at all
Composed ==
    /\ pc = "composed"
    /\ parent_id = A
    /\ \/ extensions = <<>>
       \/ \E source \in {S, P} : Substitutes(source, T) /\ RefersTo(source)

Matches == IF extensions = <<>> THEN 0 ELSE Occurrences

\* The composed allOf is the parent reference and one branch that satisfies
\* PathOnly when one occurrence matches, the parent reference alone with none
OneBranch(forced) ==
    LET allOf == output_schema["allOf"]
    IN  /\ allOf[1] = ParentRef
        /\ Matches = 0 => Len(allOf) = 1
        /\ Matches = 1 =>
              /\ Len(allOf) = 2
              /\ Cardinality(PointPaths(allOf[2], FALSE, <<>>)) = 1
              /\ PathOnly(allOf[2], FALSE, forced)

C15_WitnessOneOf ==
    /\ Composed /\ Matches = 1
    /\ ShapeIs("oneOf")
    /\ "oneOf" \in DOMAIN output_schema["allOf"][2]

\* no occurrence in a parent that has a reference
C15_WitnessNoMatch == Composed /\ Substitutes(S, T) /\ ShapeIs("no_match")

\* The document and fragment a reference denotes when it stands in the
\* document at location
Denotes(ref, location) ==
    [location |-> resolve_ref(ref, location), fragment |-> ref.fragment]

\* The emitted entry is the original one: the same keywords with the same
\* values, a '$ref' denoting what the original denotes
SameEntry(emitted, original) ==
    /\ DOMAIN emitted = DOMAIN original
    /\ \A k \in DOMAIN original :
          IF k = "$ref"
          THEN /\ Denotes(emitted[k], ChildLocation) = Denotes(original[k], ParentLocation)
               /\ is_url(original[k]) => emitted[k] = original[k]
          ELSE emitted[k] = original[k]

\* C18 (original statement): with the reference to the source one of the n
\* entries of a oneOf, the emitted branch has that oneOf with all n entries
\* in schema order: the extension point in place of the matched entry and
\* every other entry with its complete original content.
C18_OneOfReproduced ==
    \A source \in {S, P} :
        (Composed /\ Substitutes(source, T) /\ RefersTo(source) /\ ShapeIs("oneOf"))
            => LET emitted == get(output_schema["allOf"][2], "oneOf", <<>>)
                   original == docs[ParentLocation]["oneOf"]
               IN  /\ Len(emitted) = Len(original)
                   /\ Carries(emitted[1], ExtensionPoint(source, T))
                   /\ \A i \in 2..Len(original) : SameEntry(emitted[i], original[i])

\* What the composer does keep of the claim: all n entries are emitted in
\* schema order with the extension point first
C18_AllEntriesEmitted ==
    \A source \in {S, P} :
        (Composed /\ Substitutes(source, T) /\ RefersTo(source) /\ ShapeIs("oneOf"))
            => LET emitted == get(output_schema["allOf"][2], "oneOf", <<>>)
               IN  /\ Len(emitted) = MaxEntries
                   /\ Carries(emitted[1], ExtensionPoint(source, T))

\* The '$ref' values of a schema outside its extension points
RECURSIVE PlainRefsOf(_, _)
PlainRefsOf(subschema, is_properties) ==
    IF ~is_properties /\ "x-bblocks-extension-source" \in DOMAIN subschema THEN {}
    ELSE UNION { IF ~is_properties /\ k = "$ref" THEN { subschema[k] }
                 ELSE IF HoldsDict(k, is_properties)
                 THEN PlainRefsOf(subschema[k], ~is_properties /\ k = "properties")
                 ELSE IF HoldsList(k, is_properties)
                 THEN UNION { PlainRefsOf(subschema[k][i], FALSE) :
                              i \in DOMAIN subschema[k] }
                 ELSE {} : k \in DOMAIN subschema }

\* The branches the output reconstruction emitted
EmittedBranches == Tail(output_schema["allOf"])

\* The nodes of the references the walk did not match
PlainRefNodes ==
    { n \in DOMAIN schema_nodes :
        /\ schema_nodes[n].tag = "$ref"
        /\ "$ref" \in DOMAIN schema_nodes[n].subschema
        /\ n \notin ExtensionNodes }

\* C19 (original statement): in every emitted branch a '$ref' that is an
\* absolute URL is the original value, every other '$ref' denotes, from the
\* child's output location, the document and fragment the original denotes
\* in its own document, and an extension point is emitted as it was marked.
C19_RefsKeepTheirTarget ==
    pc = "composed" =>
        \A i \in DOMAIN EmittedBranches :
            /\ \A ref \in PlainRefsOf(EmittedBranches[i], FALSE) :
                  \E n \in PlainRefNodes :
                      LET original == schema_nodes[n].subschema["$ref"]
                      IN  /\ Denotes(ref, ChildLocation)
                                = Denotes(original, schema_nodes[n].from_schema.location)
                          /\ is_url(original) => ref = original
            /\ \A path \in PointPaths(EmittedBranches[i], FALSE, <<>>) :
                  \E n \in ExtensionNodes :
                      Carries(AtPath(EmittedBranches[i], path), schema_nodes[n].subschema)

\* What the composer does keep of the claim: absolute URLs and extension
\* points are emitted unchanged, every other '$ref' is emitted as ''
C19_RelativeRefsEmptied ==
    pc = "composed" =>
        \A i \in DOMAIN EmittedBranches :
            /\ \A ref \in PlainRefsOf(EmittedBranches[i], FALSE) :
                  \/ ref = EmptyString
                  \/ \E n \in PlainRefNodes :
                        /\ is_url(schema_nodes[n].subschema["$ref"])
                        /\ ref = schema_nodes[n].subschema["$ref"]
            /\ \A path \in PointPaths(EmittedBranches[i], FALSE, <<>>) :
                  \E n \in ExtensionNodes :
                      Carries(AtPath(EmittedBranches[i], path), schema_nodes[n].subschema)

\* a branch with a relative and an absolute reference beside the extension point
C19_ScenarioReached ==
    /\ Composed /\ Substitutes(S, T) /\ ShapeIs("oneOf_refs")
    /\ \E i \in DOMAIN EmittedBranches :
          Cardinality(PlainRefsOf(EmittedBranches[i], FALSE)) = 2

----------------------------------------------------------------------------
(* Properties of postprocess *)

\* The calls of annotate_schema that ended in a given way
AnnotationsThat(outcome) ==
    { i \in DOMAIN annotations : annotations[i].outcome = outcome }

\* C21: for an error raised while annotating one block: with fail_on_error set
\* the error propagates and the run aborts; with fail_on_error unset the error
\* is logged, the block is skipped (no entry in the output) and every
\* remaining block is processed.
C21_ErrorSkipsBlock ==
    /\ AnnotationsThat("raised") # {} => (fail_on_error /\ pc = "raised")
    /\ AnnotationsThat("logged") # {} => ~fail_on_error
    /\ pc = "returned" =>
         /\ \A i \in AnnotationsThat("logged") :
              annotations[i].id \notin Range(output_bblocks)
         /\ \A id \in DOMAIN bblocks :
              (\A i \in AnnotationsThat("logged") : annotations[i].id # id)
                 => id \in Range(output_bblocks)

\* What the run does instead: a block whose annotation error was logged is
\* appended to child_bblocks like every other block and its metadata is part
\* of the returned list
C21_LoggedBlockIsOutput ==
    /\ AnnotationsThat("raised") # {} => (fail_on_error /\ pc = "raised")
    /\ AnnotationsThat("logged") # {} => ~fail_on_error
    /\ pc \in { "contexts", "postprocessing", "returned" } =>
         \A i \in AnnotationsThat("logged") : annotations[i].id \in Range(child_bblocks)
    /\ pc = "returned" => Range(output_bblocks) = DOMAIN bblocks

\* a run that returned after the annotation of ogc.a was logged
C21_ScenarioReached ==
    /\ pc = "returned"
    /\ \E i \in AnnotationsThat("logged") : annotations[i].id = A
    /\ B \in Range(output_bblocks)

\* B depends on A: the edge A -> B of the dependency graph, both local
DependsOnLocal(b, a) ==
    /\ << a, b >> \in dep_graph_edges
    /\ a \in DOMAIN bblocks /\ b \in DOMAIN bblocks

\* C22: with the annotate step enabled and no filter, for local non-super
\* blocks A and B where B depends on A, the annotation of A is attempted, and
\* its annotated schema written if it succeeds, before the annotation of B
\* starts.
C22_AnnotatedInDependencyOrder ==
    (annotate_step /\ filter_id = NoId) =>
        \A j \in DOMAIN annotations :
          \A a \in DOMAIN bblocks :
            ( /\ DependsOnLocal(annotations[j].id, a)
              /\ a \notin Range(super_bblocks)
              /\ bblocks[a].schema_exists )
            => \E i \in 1..(j - 1) :
                 /\ annotations[i].id = a
                 /\ annotations[i].outcome = "written"
                      => AnnotatedOutputs(bblocks[a]) \subseteq annotations[j].disk

\* C22 witness: ogc.a depends on ogc.b; ogc.b was annotated and written, then
\* the annotation of ogc.a started
C22_Witness ==
    /\ annotate_step /\ filter_id = NoId
    /\ DependsOnLocal(A, B)
    /\ Len(annotations) = 2
    /\ annotations[1].id = B /\ annotations[1].outcome = "written"
    /\ annotations[2].id = A
    /\ bblocks[B].annotated_schema \in annotations[2].disk

----------------------------------------------------------------------------
(* Properties of http_interceptor *)

\* The most recent of the given calls was enable
LastWasEnable(made) == made # <<>> /\ made[Len(made)].call = "enable"

\* What a request answers when interception is active with the given mappings
Intercepted(url, mappings) ==
    LET content == load_content(url, mappings)
    IN  IF content = NotMapped THEN Network ELSE content

\* C29: after any sequence of enable(...) and disable() calls, interception is
\* active exactly when the most recent call was enable: a request to a URL
\* with a mapped prefix is then served from the mapped local file, and after
\* disable no request is intercepted.
C29_ActiveIffLastCallEnable ==
    /\ calls # <<>> =>
         (LastWasEnable(calls) <=> (urlopen = "mock" /\ session_request = "mock"))
    /\ \A i \in DOMAIN served :
         served[i].answer =
            IF LastWasEnable(served[i].after)
            THEN Intercepted(served[i].url, served[i].url_mappings)
            ELSE Network

\* What the module does instead: once disable() was called, no later enable
\* installs the replacements again and every request goes to the network
C29_DisableIsFinal ==
    /\ (\E i \in DOMAIN calls : calls[i].call = "disable")
          => (urlopen = "original" /\ session_request = "original" /\ mocked)
    /\ \A i \in DOMAIN served :
         served[i].answer =
            IF \E k \in DOMAIN served[i].after : served[i].after[k].call = "disable"
            THEN Network
            ELSE Intercepted(served[i].url, served[i].url_mappings)

\* enable, disable, enable(mappings), then a request to a mapped URL whose
\* local file exists
C29_ScenarioReached ==
    \E i \in DOMAIN served :
       /\ Len(served[i].after) = 3
       /\ served[i].after[2].call = "disable"
       /\ LastWasEnable(served[i].after)
       /\ served[i].url = MappedRegister
       /\ Intercepted(served[i].url, served[i].url_mappings).kind = "content"
       /\ served[i].answer = Network

----------------------------------------------------------------------------
(* Properties of the identifiers and output paths *)

\* C30: in a successfully constructed register, distinct local block
\* identifiers have distinct annotated output paths (annotated_path and
\* annotated_schema), and every block owns the local_bblock_files entry of its
\* annotated schema; for every identifier prefix, the empty one included.
C30_DistinctAnnotatedPaths ==
    pc = "done" =>
        /\ \A b, c \in DOMAIN bblocks :
             b # c => /\ bblocks[b].annotated_path # bblocks[c].annotated_path
                      /\ bblocks[b].annotated_schema # bblocks[c].annotated_schema
        /\ \A b \in DOMAIN bblocks :
             local_bblock_files[bblocks[b].annotated_schema] = b

\* The same for the registers whose prefix ends a first segment ('ogc.',
\* 'org.ogc.'): every identifier then starts with the same segment, which is
\* the one that get_bblock_subdirs drops. (The directory names of
\* PrefixItemPaths give no empty segment; Path(...) would drop it.)
C30_DistinctWithDottedPrefix ==
    (pc = "done" /\ id_prefix # <<>>) =>
        /\ \A b, c \in DOMAIN bblocks :
             b # c => /\ bblocks[b].annotated_path # bblocks[c].annotated_path
                      /\ bblocks[b].annotated_schema # bblocks[c].annotated_schema
        /\ \A b \in DOMAIN bblocks :
             local_bblock_files[bblocks[b].annotated_schema] = b

\* empty prefix, items a/x and b/x: identifiers 'a.x' and 'b.x', both with the
\* annotated schema x/schema.yaml, whose entry belongs to 'b.x'
C30_ScenarioReached ==
    /\ pc = "done"
    /\ id_prefix = <<>>
    /\ DOMAIN bblocks = { << "a", ".", "x" >>, << "b", ".", "x" >> }
    /\ bblocks[<< "a", ".", "x" >>].annotated_schema = AnnFile(<< << "x" >> >>, "schema.yaml")
    /\ bblocks[<< "b", ".", "x" >>].annotated_schema = AnnFile(<< << "x" >> >>, "schema.yaml")
    /\ local_bblock_files[AnnFile(<< << "x" >> >>, "schema.yaml")] = << "b", ".", "x" >>


----------------------------------------------------------------------------
(* Properties of Extender: the emitted allOf lists *)

\* The node has a oneOf or anyOf above it, so that walk_branch reaches it
\* with force_preserve_branch set
RECURSIVE UnderChoice(_)
UnderChoice(n) ==
    LET p == schema_nodes[n].parent
    IN  IF p = 0 THEN FALSE
        ELSE schema_nodes[p].tag \in {"oneOf", "anyOf"} \/ UnderChoice(p)

\* The allOf nodes that are emitted and are not inside a oneOf or anyOf
PlainAllOfNodes ==
    { n \in DOMAIN schema_nodes :
        /\ schema_nodes[n].tag = "allOf"
        /\ schema_nodes[n].preserve_branch
        /\ ~UnderChoice(n) }

PreservedChildren(n) ==
    { i \in DOMAIN schema_nodes[n].children :
        schema_nodes[schema_nodes[n].children[i]].preserve_branch }

\* The list walk_branch emits for an allOf node
EmittedAllOf(n) == walk_branch(n, EmptyDict, FALSE)["allOf"]

\* The entries of the allOf lists of a schema, outside every oneOf and anyOf
RECURSIVE AllOfEntries(_, _)
AllOfEntries(subschema, is_properties) ==
    UNION { IF HoldsDict(k, is_properties)
            THEN AllOfEntries(subschema[k], ~is_properties /\ k = "properties")
            ELSE IF HoldsList(k, is_properties) /\ k = "allOf"
            THEN UNION { { subschema[k][i] } \cup AllOfEntries(subschema[k][i], FALSE) :
                         i \in DOMAIN subschema[k] }
            ELSE {} : k \in DOMAIN subschema }

\* C23: an allOf that is not inside a oneOf or anyOf is emitted with exactly
\* one entry per preserved entry of the parent's allOf: an entry that is not
\* preserved adds nothing to the emitted list, not even an empty schema.
C23_AllOfEntriesPreserved ==
    pc = "composed" =>
        /\ \A n \in PlainAllOfNodes :
              Len(EmittedAllOf(n)) = Cardinality(PreservedChildren(n))
        /\ \A i \in DOMAIN EmittedBranches :
              EmptyDict \notin AllOfEntries(EmittedBranches[i], FALSE)

\* What the composer emits: one entry per entry of the parent's allOf, in the
\* order of the parent, an empty schema where the entry is not preserved
C23_PlaceholderPerEntry ==
    pc = "composed" =>
        \A n \in PlainAllOfNodes :
            /\ Len(EmittedAllOf(n)) = Len(schema_nodes[n].children)
            /\ \A i \in DOMAIN schema_nodes[n].children :
                  (EmittedAllOf(n)[i] = EmptyDict) <=> (i \notin PreservedChildren(n))

\* the parent's allOf has an entry beside the one that holds the source
C23_ScenarioReached ==
    /\ pc = "composed" /\ ShapeIs("allOf_siblings")
    /\ \E n \in PlainAllOfNodes :
          /\ Cardinality(PreservedChildren(n)) = 1
          /\ Len(schema_nodes[n].children) = 2
          /\ Len(output_schema["allOf"]) = 2
          /\ output_schema["allOf"][2]["allOf"][1] = EmptyDict


----------------------------------------------------------------------------
(* Properties of Extender: the search up the chain *)

\* The locations the substitution map has entries for
MappedLocations == { key.location : key \in DOMAIN extension_schema_mappings }

\* The schema at the location has a combinator with more than one entry
MultiEntry(location) ==
    \E k \in Combinators \cap DOMAIN docs[location] : Len(docs[location][k]) > 1

\* The walk is over for ogc.b with one substitution of a source the parent's
\* documents refer to
Walked ==
    /\ pc = "composed"
    /\ \E source \in {S, P} : Substitutes(source, T) /\ RefersTo(source)

\* C24: the search up the chain stops at a combinator with more than one
\* entry, whichever entry holds the match: a schema that a plain $ref
\* ancestor refers to gets an entry in the substitution map only if every
\* combinator between the ancestor and the match has a single entry.
C24_StopsAtMultiEntry ==
    Walked => \A location \in MappedLocations : ~MultiEntry(location)

\* What the search does: it stops at a combinator with several entries when
\* the match is in its second or a later entry, and goes on through it to the
\* $ref above when the match is in its first entry
C24_StopsUnlessFirstEntry ==
    Walked =>
        /\ ShapeIs("choice_middle") \/ ShapeIs("choice_last")
              => HolderLocation \notin MappedLocations
        /\ ShapeIs("choice_first") => HolderLocation \in MappedLocations
        /\ ShapeIs("wrapper") => WrapperLocation \in MappedLocations

\* the match is the first entry of the oneOf of holder.yaml
C24_ScenarioReached ==
    /\ Walked /\ ShapeIs("choice_first")
    /\ MultiEntry(HolderLocation)
    /\ HolderLocation \in MappedLocations
    /\ Cardinality(ExtensionNodes) = 1

\* the match is the last entry of the oneOf of holder.yaml
C24_ScenarioLastEntry ==
    /\ Walked /\ ShapeIs("choice_last")
    /\ Cardinality(ExtensionNodes) = 1
    /\ HolderLocation \notin MappedLocations


----------------------------------------------------------------------------
(* Properties of Extender: termination of the walk *)

\* The step handles a '$ref' and calls walk_subschema for its target
Descends ==
    /\ pc = "walk" /\ stack # <<>>
    /\ Top.kind = "walk" /\ NextKeyword(Top.subschema) = "$ref"
    /\ Len(stack') > Len(stack)

\* The target the step descends into had not been visited and is visited now
IntoNewTarget ==
    \E key \in visited_refs' \ visited_refs :
        stack'[Len(stack')].from_schema = Origin(key)

\* The parent's documents refer to themselves or to each other in a loop
Cyclic == ShapeIs("self_ref") \/ ShapeIs("mutual")

\* C25: the composition of a block ends, with the composed schema or with an
\* error, also when the $refs of the parent's documents form a loop, and the
\* walk descends into the target of a reference only if that target has not
\* been visited before in the composition, so at most once per target.
C25_WalkTerminatesOncePerTarget ==
    /\ <>Stopped
    /\ [][(Descends => IntoNewTarget) /\ visited_refs \subseteq visited_refs']_vars

\* the parent refers to holder.yaml and holder.yaml back to the parent: both
\* were walked and the composition ended
C25_Witness ==
    /\ pc = "composed" /\ ShapeIs("mutual")
    /\ FullRef(HolderLocation, <<>>) \in visited_refs
    /\ FullRef(ParentLocation, <<>>) \in visited_refs

\* a property of the parent refers to the parent's own schema
C25_WitnessSelfReference ==
    /\ pc = "composed" /\ ShapeIs("self_ref")
    /\ FullRef(ParentLocation, <<>>) \in visited_refs


----------------------------------------------------------------------------
(* Properties of Extender: the alias chain of a source *)

\* The schema of the imported source imp.p has the given shape
SourceShapeIs(source_shape) ==
    \E shape \in ParentShapes : docs = Documents(shape, ImportedYaml, source_shape)

\* The locations on the wrapper chain that starts at the schema of imp.p
ChainLocations ==
    IF SourceShapeIs("alias") \/ SourceShapeIs("alias_loop") THEN {ImportedYaml, AliasUrl}
    ELSE {ImportedYaml}

\* ogc.b substitutes imp.p, whose schema is a wrapper and can be loaded, the
\* schema of the target is written, and the loop of process_extensions over
\* the substitutions is over
ChainMapped ==
    /\ Substitutes(P, T) /\ RefersTo(P)
    /\ target_bblock_schema(T).raises = "none"
    /\ source_bblock_schema(P).raises = "none"
    /\ resolve_location(source_bblock_schema(P).location, <<>>).raises = "none"
    /\ SourceShapeIs("alias") \/ SourceShapeIs("self_alias") \/ SourceShapeIs("alias_loop")
    /\ \/ pc \in {"walk", "composed"}
       \/ pc = "failed" /\ error.ref = P

\* every location of the chain has the substitution entry of imp.p
ChainRegistered ==
    \A l \in ChainLocations :
        /\ FullRef(l, <<>>) \in DOMAIN extension_schema_mappings
        /\ extension_schema_mappings[FullRef(l, <<>>)].extension_source_id = P
        /\ extension_schema_mappings[FullRef(l, <<>>)].extension_target_id = T

\* C26: the expansion of the alias chain of a source ends without an error
\* also when the wrapper chain leads back to a schema already on it, and
\* every location of the chain is registered under the substitution of the
\* source.
C26_AliasChainRegistered ==
    ChainMapped => /\ pc # "failed"
                   /\ ChainRegistered

\* What the composer does: a chain that ends is registered; a chain that leads
\* back into itself ends the composition with RecursionError
C26_LoopRaises ==
    ChainMapped =>
        IF SourceShapeIs("alias")
        THEN pc # "failed" /\ ChainRegistered
        ELSE pc = "failed" /\ error.kind = "RecursionError"

\* the schema of imp.p is a single-entry allOf with a $ref to itself
C26_ScenarioReached ==
    /\ ChainMapped /\ SourceShapeIs("self_alias")
    /\ error.kind = "RecursionError"

\* the schema of imp.p wraps a schema that wraps the schema of imp.p
C26_ScenarioIndirect ==
    /\ ChainMapped /\ SourceShapeIs("alias_loop")
    /\ error.kind = "RecursionError"


----------------------------------------------------------------------------
(* Properties of Extender: every occurrence of a source *)

\* The extension points of the composed schema
ComposedPoints == PointPaths(output_schema, FALSE, <<>>)

\* The extension points of the composed schema carry the target reference of
\* the declared substitution
PointsCarryTarget ==
    \A source \in {S, P} :
        Substitutes(source, T) =>
            \A path \in ComposedPoints :
                Carries(AtPath(output_schema, path), ExtensionPoint(source, T))

\* C27: every $ref of the parent's schema tree that resolves to the schema of
\* a substitution source has an extension point with the target reference at
\* its position in the composed schema, also when the document that holds the
\* $ref is referred to from two places of the parent and when the $ref has
\* other keywords beside it.
C27_EveryOccurrenceSubstituted ==
    Walked => /\ Cardinality(ComposedPoints) = Occurrences
              /\ PointsCarryTarget

\* What the composer emits: as C27 for a document that is referred to once;
\* of a document that is referred to twice, the occurrences reached through the
\* first reference alone
C27_FirstReferenceOnly ==
    Walked => /\ ~ShapeIs("shared") => Cardinality(ComposedPoints) = Occurrences
              /\ ShapeIs("shared") =>
                    ComposedPoints = { << "allOf", "2", "properties", "x", "properties", "p" >> }
              /\ PointsCarryTarget

\* two properties of the parent refer to holder.yaml, which has a property
\* that refers to the source
C27_ScenarioReached ==
    /\ Walked /\ ShapeIs("shared")
    /\ Occurrences = 2
    /\ Cardinality(ComposedPoints) = 1
    /\ Cardinality({ n \in DOMAIN schema_nodes :
                        /\ schema_nodes[n].tag = "$ref"
                        /\ ~schema_nodes[n].preserve_branch
                        /\ schema_nodes[n].children = <<>> }) = 1

\* the $ref to the source has a description beside it
C27_ScenarioSiblingKeyword ==
    /\ Walked /\ ShapeIs("allOf_siblings")
    /\ Cardinality(ComposedPoints) = 1

====
